---- MODULE Spec2Model ----
(***************************************************************************)
(* A model of the pgs crate of pgs-tools: the run-length codec, the        *)
(* segment codec and the display-set assembler.                            *)
(*                                                                         *)
(* Bytes are the integers 0..255.  A Result<T, E> is a record with an err  *)
(* field: err = "None" is Ok, any other string names the error variant.    *)
(***************************************************************************)
EXTENDS Integers, Sequences, FiniteSets, TLC

VARIABLES
    pc,              \* position of the running operation
    lines,           \* RLE: the object lines handed to rle_compress
    data,            \* RLE: the result of rle_compress
    decoded,         \* RLE: the result of rle_decompress on data.out
    focus,           \* read_display_set: the family of segments the source holds
    stream,          \* read_display_set: the results of its read_segment calls so far
    segments,        \* read_display_set: the Vec<Segment>; try_from: the slice `value`
    idx,             \* try_from: how many segments the loop has taken
    pcs,             \* try_from: index in segments of the PCS, 0 for None
    es,              \* try_from: index in segments of the ES, 0 for None
    sequence,        \* try_from: the object sequence state
    initial_object,  \* try_from: index in segments of the pending Initial ODS, 0 for None
    middle_objects,  \* try_from: indices in segments of the pending Middle ODS
    windows,         \* try_from: BTreeMap<u8, Window>
    palettes,        \* try_from: BTreeMap<Vid<u8>, Palette>
    objects,         \* try_from: BTreeMap<Vid<u16>, Object>
    result,          \* the Result read_display_set returned
    input_segment,   \* segment cycle: the segment handed to write_segment
    display_set,     \* display set cycle: the display set handed to write_display_set
    sink,            \* the result of the write, with the bytes that reached the buffer
    cursor,          \* the position of the next byte to read from the buffer
    object_iter,     \* to_segments: the keys `for (vid, object) in &self.objects` has left
    cycled,          \* segment cycle: the result of read_segment
    call,            \* pgsmod: the arguments of a new_item_offset call
    returned         \* pgsmod: what the new_item_offset call returned

rleVars == <<lines, data, decoded>>

readVars == <<focus, stream, segments, idx, pcs, es, sequence, initial_object,
              middle_objects, windows, palettes, objects, result>>

codecVars == <<input_segment, display_set, sink, cursor, object_iter, cycled>>

modVars == <<call, returned>>

vars == <<pc, rleVars, readVars, codecVars, modVars>>

(***************************************************************************)
(* Bounds of the model.                                                    *)
(***************************************************************************)
\* number of runs and end-of-line marks an RLE input is built from
MaxItems == 4

\* number of read_segment calls one read_display_set may make
MaxSegs == 6

\* Ok(v) and Err(e) of a Result whose payload is a byte vector or a line list
Ok(v) == [err |-> "None", out |-> v]

Err(e) == [err |-> e, out |-> <<>>]

IsOk(r) == r.err = "None"

\* n copies of b: the loops `for _ in 0..n { line.push(b) }`
Repeat(b, n) == [j \in 1..n |-> b]

(***************************************************************************)
(* displaysetwrite.rs: rle_compress and output_rle_sequence                *)
(***************************************************************************)
\* a mutant of output_rle_sequence: the short non-zero run arm is 3..=64
output_rle_sequence_off_by_one(output, byte, count) ==
    IF byte = 0
    THEN IF count = 0 THEN Ok(output)
         ELSE IF count <= 63 THEN Ok(output \o <<0, count>>)
         ELSE IF count <= 16383
              THEN Ok(output \o <<0, 64 + (count \div 256), count % 256>>)
         ELSE Err("ObjectLineTooLong")
    ELSE IF count = 0 THEN Ok(output)
         ELSE IF count = 1 THEN Ok(output \o <<byte>>)
         ELSE IF count = 2 THEN Ok(output \o <<byte, byte>>)
         ELSE IF count <= 64 THEN Ok(output \o <<0, (128 + count) % 256, byte>>)
         ELSE IF count <= 16383
              THEN Ok(output \o <<0, 192 + (count \div 256), count % 256, byte>>)
         ELSE Err("ObjectLineTooLong")

\* count <= 16383 in the arms that shift and mask it, so 0x40 | (count >> 8)
\* is 64 + count \div 256 and 0x80 | count is 128 + count
output_rle_sequence(output, byte, count) ==
    IF byte = 0
    THEN IF count = 0 THEN Ok(output)
         ELSE IF count <= 63 THEN Ok(output \o <<0, count>>)
         ELSE IF count <= 16383
              THEN Ok(output \o <<0, 64 + (count \div 256), count % 256>>)
         ELSE Err("ObjectLineTooLong")
    ELSE IF count = 0 THEN Ok(output)
         ELSE IF count = 1 THEN Ok(output \o <<byte>>)
         ELSE IF count = 2 THEN Ok(output \o <<byte, byte>>)
         ELSE IF count <= 63 THEN Ok(output \o <<0, 128 + count, byte>>)
         ELSE IF count <= 16383
              THEN Ok(output \o <<0, 192 + (count \div 256), count % 256, byte>>)
         ELSE Err("ObjectLineTooLong")

\* one iteration of `for next_byte in line`; st holds the locals byte and count
\* and the output so far (or the error already returned by `?`)
compress_byte(st, next_byte) ==
    IF ~IsOk(st.res) THEN st
    ELSE IF next_byte = st.byte THEN [st EXCEPT !.count = @ + 1]
    ELSE [byte |-> next_byte, count |-> 1,
          res |-> IF st.count > 0
                  THEN output_rle_sequence(st.res.out, st.byte, st.count)
                  ELSE st.res]

\* iterations lo..hi of `for next_byte in line`, in order: the first half, then
\* the second half from the locals the first half left
RECURSIVE compress_bytes(_, _, _, _)
compress_bytes(line, lo, hi, st) ==
    IF lo > hi THEN st
    ELSE IF lo = hi THEN compress_byte(st, line[lo])
    ELSE LET half == compress_bytes(line, lo, (lo + hi) \div 2, st) IN
         IF ~IsOk(half.res) THEN half
         ELSE compress_bytes(line, (lo + hi) \div 2 + 1, hi, half)

\* the body of `for line in input`: the inner loop from byte = 0 and count = 0,
\* the flush and the terminator
compress_line(line, res) ==
    LET st == compress_bytes(line, 1, Len(line), [byte |-> 0, count |-> 0, res |-> res])
        flushed == IF IsOk(st.res)
                   THEN output_rle_sequence(st.res.out, st.byte, st.count)
                   ELSE st.res
    IN  IF IsOk(flushed) THEN Ok(flushed.out \o <<0, 0>>) ELSE flushed

\* iterations lo..hi of `for line in input`, in order
RECURSIVE compress_lines(_, _, _, _)
compress_lines(input, lo, hi, res) ==
    IF lo > hi \/ ~IsOk(res) THEN res
    ELSE IF lo = hi THEN compress_line(input[lo], res)
    ELSE LET half == compress_lines(input, lo, (lo + hi) \div 2, res) IN
         IF ~IsOk(half) THEN half
         ELSE compress_lines(input, (lo + hi) \div 2 + 1, hi, half)

rle_compress(input) == compress_lines(input, 1, Len(input), Ok(<<>>))

(***************************************************************************)
(* displaysetread.rs: rle_decompress                                       *)
(***************************************************************************)
\* b2 >> 6 is b2 \div 64, b2 & 0x3F is b2 % 64 and
\* (b2 as u16 & 0x3F) << 8 | b3 as u16 is (b2 % 64) * 256 + b3
RECURSIVE decompress_from(_, _, _, _)
decompress_from(input, i, line, output) ==
    IF i > Len(input)
    THEN IF line # <<>> THEN Err("IncompleteRleLine") ELSE Ok(output)
    ELSE IF input[i] # 0
    THEN decompress_from(input, i + 1, Append(line, input[i]), output)
    ELSE IF i + 1 > Len(input) THEN Err("IncompleteRleSequence")
    ELSE LET byte_2 == input[i + 1] IN
         IF byte_2 = 0
         THEN decompress_from(input, i + 2, <<>>, Append(output, line))
         ELSE IF byte_2 \div 64 = 0
         THEN decompress_from(input, i + 2, line \o Repeat(0, byte_2 % 64), output)
         ELSE IF byte_2 \div 64 = 1
         THEN IF i + 2 > Len(input) THEN Err("IncompleteRleSequence")
              ELSE decompress_from(input, i + 3,
                       line \o Repeat(0, (byte_2 % 64) * 256 + input[i + 2]), output)
         ELSE IF byte_2 \div 64 = 2
         THEN IF i + 2 > Len(input) THEN Err("IncompleteRleSequence")
              ELSE decompress_from(input, i + 3,
                       line \o Repeat(input[i + 2], byte_2 % 64), output)
         ELSE IF byte_2 \div 64 = 3
         THEN IF i + 3 > Len(input) THEN Err("IncompleteRleSequence")
              ELSE decompress_from(input, i + 4,
                       line \o Repeat(input[i + 3], (byte_2 % 64) * 256 + input[i + 2]),
                       output)
         ELSE Err("InvalidRleSequence")

rle_decompress(input) == decompress_from(input, 1, <<>>, <<>>)

(***************************************************************************)
(* segment.rs and displayset.rs: the data model.  An Option is a record    *)
(* with a `some` flag; a BTreeMap is a function on its set of keys; a Vid  *)
(* or Cid key is the pair of its fields.                                   *)
(***************************************************************************)
None == [some |-> FALSE]

Some(v) == [some |-> TRUE, v |-> v]

EmptyMap == [k \in {} |-> 0]

\* BTreeMap::insert: a value already stored under the key is replaced
MapInsert(m, k, v) == [x \in (DOMAIN m) \cup {k} |-> IF x = k THEN v ELSE m[x]]

Vid(id, version) == <<id, version>>

Cid(object_id, window_id) == <<object_id, window_id>>

Crop(x, y, width, height) == [x |-> x, y |-> y, width |-> width, height |-> height]

CompositionObject(object_id, window_id, x, y, crop) ==
    [object_id |-> object_id, window_id |-> window_id, x |-> x, y |-> y, crop |-> crop]

WindowDefinition(id, x, y, width, height) ==
    [id |-> id, x |-> x, y |-> y, width |-> width, height |-> height]

PaletteEntry(id, y, cr, cb, alpha) ==
    [id |-> id, y |-> y, cr |-> cr, cb |-> cb, alpha |-> alpha]

PresentationCompositionSegment(pts, dts, width, height, frame_rate, number, state, pu, cos) ==
    [kind |-> "PresentationComposition", pts |-> pts, dts |-> dts,
     width |-> width, height |-> height, frame_rate |-> frame_rate,
     composition_number |-> number,
     composition_state |-> state,
     palette_update_id |-> pu,
     composition_objects |-> cos]

WindowDefinitionSegment(pts, dts, wds) ==
    [kind |-> "WindowDefinition", pts |-> pts, dts |-> dts, windows |-> wds]

PaletteDefinitionSegment(pts, dts, id, version, entries) ==
    [kind |-> "PaletteDefinition", pts |-> pts, dts |-> dts,
     id |-> id, version |-> version, entries |-> entries]

SingleObjectDefinitionSegment(pts, dts, id, version, width, height, bytes) ==
    [kind |-> "SingleObjectDefinition", pts |-> pts, dts |-> dts,
     id |-> id, version |-> version, width |-> width, height |-> height, data |-> bytes]

InitialObjectDefinitionSegment(pts, dts, id, version, length, width, height, bytes) ==
    [kind |-> "InitialObjectDefinition", pts |-> pts, dts |-> dts,
     id |-> id, version |-> version, length |-> length,
     width |-> width, height |-> height, data |-> bytes]

MiddleObjectDefinitionSegment(pts, dts, id, version, bytes) ==
    [kind |-> "MiddleObjectDefinition", pts |-> pts, dts |-> dts,
     id |-> id, version |-> version, data |-> bytes]

FinalObjectDefinitionSegment(pts, dts, id, version, bytes) ==
    [kind |-> "FinalObjectDefinition", pts |-> pts, dts |-> dts,
     id |-> id, version |-> version, data |-> bytes]

EndSegment(pts, dts) == [kind |-> "End", pts |-> pts, dts |-> dts]

(***************************************************************************)
(* segmentwrite.rs: write_segment and the payload generators.  A write     *)
(* result holds in `out` the bytes that reached the sink, also when the    *)
(* write failed.                                                           *)
(***************************************************************************)
U8(v) == <<v % 256>>

U16(v) == <<(v \div 256) % 256, v % 256>>

U24(v) == <<(v \div 65536) % 256, (v \div 256) % 256, v % 256>>

U32(v) == <<(v \div 16777216) % 256, (v \div 65536) % 256, (v \div 256) % 256, v % 256>>

\* the arm of `match &comp_obj.crop` an Option<Crop> of segment.rs takes: a crop
\* with its rectangle is Crop::Explicit, no crop is Crop::None; no value of the
\* type is Crop::Implicit
crop_arm(crop) == IF crop.some THEN "Explicit" ELSE "None"

crop_flag(crop) ==
    CASE crop_arm(crop) = "None" -> 0
      [] crop_arm(crop) = "Implicit" -> 64
      [] crop_arm(crop) = "Explicit" -> 128

composition_state_flag(state) ==
    CASE state = "Normal" -> 0
      [] state = "AcquisitionPoint" -> 64
      [] state = "EpochStart" -> 128

generate_comp_obj(comp_obj) ==
    U16(comp_obj.object_id) \o U8(comp_obj.window_id) \o U8(crop_flag(comp_obj.crop))
        \o U16(comp_obj.x) \o U16(comp_obj.y)
        \o (IF crop_arm(comp_obj.crop) = "Explicit"
            THEN U16(comp_obj.crop.v.x) \o U16(comp_obj.crop.v.y)
                     \o U16(comp_obj.crop.v.width) \o U16(comp_obj.crop.v.height)
            ELSE <<>>)

generate_window(window) ==
    U8(window.id) \o U16(window.x) \o U16(window.y) \o U16(window.width)
        \o U16(window.height)

generate_entry(entry) ==
    U8(entry.id) \o U8(entry.y) \o U8(entry.cr) \o U8(entry.cb) \o U8(entry.alpha)

\* the bytes the loops `for item in items { payload.write.. }` write, from the
\* n-th item's on
RECURSIVE Flatten(_, _)
Flatten(parts, n) ==
    IF n > Len(parts) THEN <<>>
    ELSE IF n = Len(parts) THEN parts[n]
    ELSE LET mid == (n + Len(parts)) \div 2 IN
         Flatten(SubSeq(parts, 1, mid), n) \o Flatten(parts, mid + 1)

generate_pcs(a_pcs) ==
    LET head == U16(a_pcs.width) \o U16(a_pcs.height) \o U8(a_pcs.frame_rate)
                    \o U16(a_pcs.composition_number)
                    \o U8(composition_state_flag(a_pcs.composition_state))
                    \o (IF a_pcs.palette_update_id.some
                        THEN <<128, a_pcs.palette_update_id.v>>
                        ELSE <<0, 0>>)
    IN  IF Len(a_pcs.composition_objects) <= 255
        THEN Ok(head \o U8(Len(a_pcs.composition_objects))
                     \o Flatten([n \in 1..Len(a_pcs.composition_objects) |->
                                  generate_comp_obj(a_pcs.composition_objects[n])], 1))
        ELSE Err("TooManyCompositionObjects")

generate_wds(wds) ==
    IF Len(wds.windows) <= 255
    THEN Ok(U8(Len(wds.windows))
                \o Flatten([n \in 1..Len(wds.windows) |-> generate_window(wds.windows[n])], 1))
    ELSE Err("TooManyWindowDefinitions")

generate_pds(pds) ==
    Ok(U8(pds.id) \o U8(pds.version)
           \o Flatten([n \in 1..Len(pds.entries) |-> generate_entry(pds.entries[n])], 1))

generate_sods(ods) ==
    IF Len(ods.data) <= 16777211
    THEN Ok(U16(ods.id) \o U8(ods.version) \o <<192>> \o U24(Len(ods.data) + 4)
                \o U16(ods.width) \o U16(ods.height) \o ods.data)
    ELSE Err("ObjectDataTooLarge")

generate_iods(ods) ==
    IF ods.length <= 16777215
    THEN Ok(U16(ods.id) \o U8(ods.version) \o <<128>> \o U24(ods.length)
                \o U16(ods.width) \o U16(ods.height) \o ods.data)
    ELSE Err("ObjectDataTooLarge")

generate_mods(ods) == Ok(U16(ods.id) \o U8(ods.version) \o <<0>> \o ods.data)

generate_fods(ods) == Ok(U16(ods.id) \o U8(ods.version) \o <<64>> \o ods.data)

\* the byte written for the kind of the segment
kind_byte(segment) ==
    CASE segment.kind = "PresentationComposition" -> 22
      [] segment.kind = "WindowDefinition" -> 23
      [] segment.kind = "PaletteDefinition" -> 20
      [] segment.kind \in {"SingleObjectDefinition", "InitialObjectDefinition",
                           "MiddleObjectDefinition", "FinalObjectDefinition"} -> 21
      [] segment.kind = "End" -> 128

generate_payload(segment) ==
    CASE segment.kind = "PresentationComposition" -> generate_pcs(segment)
      [] segment.kind = "WindowDefinition" -> generate_wds(segment)
      [] segment.kind = "PaletteDefinition" -> generate_pds(segment)
      [] segment.kind = "SingleObjectDefinition" -> generate_sods(segment)
      [] segment.kind = "InitialObjectDefinition" -> generate_iods(segment)
      [] segment.kind = "MiddleObjectDefinition" -> generate_mods(segment)
      [] segment.kind = "FinalObjectDefinition" -> generate_fods(segment)
      [] segment.kind = "End" -> Ok(<<>>)

\* the magic number 0x5047, pts, dts and the kind go out before the payload is
\* generated; `payload.len() as u16` keeps the low 16 bits
\* a mutant of write_segment: the header holds dts before pts
write_segment_dts_first(segment) ==
    LET head == U16(20551) \o U32(segment.dts) \o U32(segment.pts)
                    \o U8(kind_byte(segment))
        payload == generate_payload(segment)
    IN  IF IsOk(payload)
        THEN [err |-> "None",
              out |-> head \o U16(Len(payload.out) % 65536) \o payload.out]
        ELSE [err |-> payload.err, out |-> head]

write_segment(segment) ==
    LET head == U16(20551) \o U32(segment.pts) \o U32(segment.dts)
                    \o U8(kind_byte(segment))
        payload == generate_payload(segment)
    IN  IF IsOk(payload)
        THEN [err |-> "None",
              out |-> head \o U16(Len(payload.out) % 65536) \o payload.out]
        ELSE [err |-> payload.err, out |-> head]

(***************************************************************************)
(* segmentread.rs: read_segment and the payload parsers.  A parser reads   *)
(* its payload front to back; a read past the end of the payload is the    *)
(* I/O error UnexpectedEof.                                                *)
(***************************************************************************)
U16At(bytes, i) == bytes[i] * 256 + bytes[i + 1]

U24At(bytes, i) == bytes[i] * 65536 + bytes[i + 1] * 256 + bytes[i + 2]

U32At(bytes, i) ==
    bytes[i] * 16777216 + bytes[i + 1] * 65536 + bytes[i + 2] * 256 + bytes[i + 3]

\* the loop `for _ in 0..comp_obj_count` from iteration n on; pos bytes of the
\* payload are consumed, acc holds the composition objects pushed so far
RECURSIVE parse_comp_objs(_, _, _, _, _)
parse_comp_objs(payload, comp_obj_count, n, pos, acc) ==
    IF n > comp_obj_count THEN Ok(acc)
    ELSE IF Len(payload) - pos >= 8
    THEN LET parsed_crop_flag == payload[pos + 4]
             cropped == parsed_crop_flag = 64
             has_crop == cropped /\ Len(payload) - (pos + 8) >= 8
             crop == IF has_crop
                     THEN Some(Crop(U16At(payload, pos + 9), U16At(payload, pos + 11),
                                    U16At(payload, pos + 13), U16At(payload, pos + 15)))
                     ELSE None
             comp_obj == CompositionObject(U16At(payload, pos + 1), payload[pos + 3],
                                           U16At(payload, pos + 5), U16At(payload, pos + 7),
                                           crop)
         IN  IF parsed_crop_flag \notin {0, 64} THEN Err("UnrecognizedCropFlag")
             ELSE parse_comp_objs(payload, comp_obj_count, n + 1,
                                  IF has_crop THEN pos + 16 ELSE pos + 8,
                                  Append(acc, comp_obj))
    ELSE parse_comp_objs(payload, comp_obj_count, n + 1, pos, acc)

parse_pcs(pts, dts, payload) ==
    IF Len(payload) < 8 THEN Err("UnexpectedEof")
    ELSE IF payload[8] \notin {0, 64, 128} THEN Err("UnrecognizedCompositionState")
    ELSE IF Len(payload) < 9 THEN Err("UnexpectedEof")
    ELSE IF payload[9] \notin {0, 128} THEN Err("UnrecognizedPaletteUpdateFlag")
    ELSE IF Len(payload) < 11 THEN Err("UnexpectedEof")
    ELSE LET composition_state ==
                 CASE payload[8] = 0 -> "Normal"
                   [] payload[8] = 64 -> "AcquisitionPoint"
                   [] payload[8] = 128 -> "EpochStart"
             palette_update_id == IF payload[9] = 128 THEN Some(payload[10]) ELSE None
             composition_objects == parse_comp_objs(payload, payload[11], 1, 11, <<>>)
         IN  IF ~IsOk(composition_objects) THEN composition_objects
             ELSE Ok(PresentationCompositionSegment(
                         pts, dts, U16At(payload, 1), U16At(payload, 3), payload[5],
                         U16At(payload, 6), composition_state, palette_update_id,
                         composition_objects.out))

\* the loop `for _ in 0..count` of parse_wds from window n on
RECURSIVE parse_windows(_, _, _, _)
parse_windows(payload, count, n, acc) ==
    IF n > count THEN Ok(acc)
    ELSE LET at == 2 + 9 * (n - 1) IN
         IF Len(payload) < at + 8 THEN Err("UnexpectedEof")
         ELSE parse_windows(payload, count, n + 1,
                  Append(acc, WindowDefinition(payload[at], U16At(payload, at + 1),
                                               U16At(payload, at + 3), U16At(payload, at + 5),
                                               U16At(payload, at + 7))))

parse_wds(pts, dts, payload) ==
    IF Len(payload) < 1 THEN Err("UnexpectedEof")
    ELSE LET parsed == parse_windows(payload, payload[1], 1, <<>>) IN
         IF IsOk(parsed) THEN Ok(WindowDefinitionSegment(pts, dts, parsed.out)) ELSE parsed

\* count = (payload.len() - 2) / 5 is computed first: on a payload of fewer than
\* two bytes the subtraction overflows, which panics where overflow is checked and
\* wraps where it is not, the read of id or version then ending in UnexpectedEof
parse_pds(pts, dts, payload) ==
    IF Len(payload) < 2 THEN Err("panic or UnexpectedEof")
    ELSE LET count == (Len(payload) - 2) \div 5
             entries == [n \in 1..count |->
                            PaletteEntry(payload[5 * n - 2], payload[5 * n - 1],
                                         payload[5 * n], payload[5 * n + 1],
                                         payload[5 * n + 2])]
         IN  Ok(PaletteDefinitionSegment(pts, dts, payload[1], payload[2], entries))

\* the segment read_segment builds for an ODS: the sequence flag and the lines
ObjectDefinitionSegment(pts, dts, id, version, seq, width, height, object_lines) ==
    [kind |-> "ObjectDefinition", pts |-> pts, dts |-> dts, id |-> id,
     version |-> version, sequence |-> seq, width |-> width, height |-> height,
     lines |-> object_lines]

parse_ods(pts, dts, payload) ==
    IF Len(payload) < 4 THEN Err("UnexpectedEof")
    ELSE IF payload[4] \notin {192, 128, 64} THEN Err("UnrecognizedObjectSequenceFlag")
    ELSE IF Len(payload) < 7 THEN Err("UnexpectedEof")
    ELSE IF U24At(payload, 5) # Len(payload) - 7 THEN Err("InvalidObjectDataLength")
    ELSE IF Len(payload) < 11 THEN Err("UnexpectedEof")
    ELSE LET seq == CASE payload[4] = 192 -> "Single"
                      [] payload[4] = 128 -> "First"
                      [] payload[4] = 64 -> "Last"
             object_lines == rle_decompress(SubSeq(payload, 12, Len(payload)))
         IN  IF ~IsOk(object_lines) THEN object_lines
             ELSE Ok(ObjectDefinitionSegment(pts, dts, U16At(payload, 1), payload[3], seq,
                                             U16At(payload, 8), U16At(payload, 10),
                                             object_lines.out))

\* read_segment on the bytes from position pos on; next is the position after
\* the segment
read_segment(bytes, pos) ==
    LET left == Len(bytes) - pos + 1
        size == U16At(bytes, pos + 11)
        payload == SubSeq(bytes, pos + 13, pos + 12 + size)
        pts == U32At(bytes, pos + 2)
        dts == U32At(bytes, pos + 6)
        parsed_kind == bytes[pos + 10]
        parsed == CASE parsed_kind = 20 -> parse_pds(pts, dts, payload)
                    [] parsed_kind = 21 -> parse_ods(pts, dts, payload)
                    [] parsed_kind = 22 -> parse_pcs(pts, dts, payload)
                    [] parsed_kind = 23 -> parse_wds(pts, dts, payload)
                    [] parsed_kind = 128 -> Ok(EndSegment(pts, dts))
                    [] OTHER -> Err("UnrecognizedKind")
    IN  IF left < 2 THEN [err |-> "UnexpectedEof", out |-> <<>>, next |-> pos]
        ELSE IF U16At(bytes, pos) # 20551
        THEN [err |-> "UnrecognizedMagicNumber", out |-> <<>>, next |-> pos + 2]
        ELSE IF left < 13 \/ left < 13 + size
        THEN [err |-> "UnexpectedEof", out |-> <<>>, next |-> Len(bytes) + 1]
        ELSE [err |-> parsed.err, out |-> parsed.out, next |-> pos + 13 + size]

(***************************************************************************)
(* displaysetread.rs: DisplaySet::try_from.  The locals of the function    *)
(* are the fields of a record l; l.err is "None" until the function        *)
(* returns an Err.  pcs, es, initial_object and middle_objects are         *)
(* references into the slice, kept as indices into l.segments.             *)
(***************************************************************************)
Fail(l, e) == [l EXCEPT !.err = e]

\* the locals as try_from declares them, over the slice `value`
try_from_locals(value) ==
    [pcs |-> 0, es |-> 0, sequence |-> "Single", initial_object |-> 0,
     middle_objects |-> <<>>, windows |-> EmptyMap, palettes |-> EmptyMap,
     objects |-> EmptyMap, segments |-> value, err |-> "None"]

\* the loop over wds.windows from window n on
RECURSIVE insert_windows(_, _, _)
insert_windows(l, wds, n) ==
    IF n > Len(wds.windows) THEN l
    ELSE LET wd == wds.windows[n] IN
         IF wd.id \in DOMAIN l.windows THEN Fail(l, "DuplicateWindowId")
         ELSE insert_windows(
                  [l EXCEPT !.windows = MapInsert(@, wd.id,
                       [x |-> wd.x, y |-> wd.y, width |-> wd.width, height |-> wd.height])],
                  wds, n + 1)

\* pds.entries.iter().map(..).collect::<BTreeMap<..>>(): later entries replace earlier
RECURSIVE collect_entries(_, _, _)
collect_entries(entries, n, m) ==
    IF n > Len(entries) THEN m
    ELSE collect_entries(entries, n + 1,
             MapInsert(m, entries[n].id,
                 [y |-> entries[n].y, cr |-> entries[n].cr,
                  cb |-> entries[n].cb, alpha |-> entries[n].alpha]))

\* a mutant of middle_data: the fragments are taken last to first
RECURSIVE middle_data_reversed(_, _, _)
middle_data_reversed(segs, mids, n) ==
    IF n > Len(mids) THEN <<>>
    ELSE middle_data_reversed(segs, mids, n + 1) \o segs[mids[n]].data

\* the data of the pending Middle fragments from fragment n on, in arrival order
RECURSIVE middle_data(_, _, _)
middle_data(segs, mids, n) ==
    IF n > Len(mids) THEN <<>>
    ELSE segs[mids[n]].data \o middle_data(segs, mids, n + 1)

\* Vec::append moves the bytes out of the fragments at the indices in taken
drained(segs, taken) ==
    [k \in DOMAIN segs |-> IF k \in taken THEN [segs[k] EXCEPT !.data = <<>>] ELSE segs[k]]

Range(f) == {f[k] : k \in DOMAIN f}

\* a mutant of wds_arm: a window whose id is already defined replaces it
wds_arm_overwrite(l, wds) ==
    IF l.pcs = 0 THEN Fail(l, "MissingPresentationCompositionSegment")
    ELSE LET the_pcs == l.segments[l.pcs] IN
         IF wds.pts # the_pcs.pts THEN Fail(l, "InconsistentPts")
         ELSE IF wds.dts # the_pcs.dts THEN Fail(l, "InconsistentDts")
         ELSE [l EXCEPT !.windows =
                  [id \in (DOMAIN @) \cup {wds.windows[n].id : n \in DOMAIN wds.windows} |->
                      IF \E n \in DOMAIN wds.windows : wds.windows[n].id = id
                      THEN LET n == CHOOSE n \in DOMAIN wds.windows : wds.windows[n].id = id
                           IN  [x |-> wds.windows[n].x, y |-> wds.windows[n].y,
                                width |-> wds.windows[n].width,
                                height |-> wds.windows[n].height]
                      ELSE @[id]]]

\* the arm Segment::WindowDefinition(wds)
wds_arm(l, wds) ==
    IF l.pcs = 0 THEN Fail(l, "MissingPresentationCompositionSegment")
    ELSE LET the_pcs == l.segments[l.pcs] IN
         IF wds.pts # the_pcs.pts THEN Fail(l, "InconsistentPts")
         ELSE IF wds.dts # the_pcs.dts THEN Fail(l, "InconsistentDts")
         ELSE insert_windows(l, wds, 1)

\* a mutant of pds_arm: a palette ends the object under reassembly
pds_arm_ends_object(l, pds) ==
    IF l.pcs = 0 THEN Fail(l, "MissingPresentationCompositionSegment")
    ELSE LET the_pcs == l.segments[l.pcs]
             vid == Vid(pds.id, pds.version)
         IN  IF pds.pts # the_pcs.pts THEN Fail(l, "InconsistentPts")
             ELSE IF pds.dts # the_pcs.dts THEN Fail(l, "InconsistentDts")
             ELSE IF vid \in DOMAIN l.palettes THEN Fail(l, "DuplicatePaletteVid")
             ELSE [l EXCEPT !.palettes = MapInsert(@, vid,
                      [entries |-> collect_entries(pds.entries, 1, EmptyMap)]),
                            !.sequence = "Single",
                            !.initial_object = 0,
                            !.middle_objects = <<>>]

\* the arm Segment::PaletteDefinition(pds)
pds_arm(l, pds) ==
    IF l.pcs = 0 THEN Fail(l, "MissingPresentationCompositionSegment")
    ELSE LET the_pcs == l.segments[l.pcs]
             vid == Vid(pds.id, pds.version)
         IN  IF pds.pts # the_pcs.pts THEN Fail(l, "InconsistentPts")
             ELSE IF pds.dts # the_pcs.dts THEN Fail(l, "InconsistentDts")
             ELSE IF vid \in DOMAIN l.palettes THEN Fail(l, "DuplicatePaletteVid")
             ELSE [l EXCEPT !.palettes = MapInsert(@, vid,
                      [entries |-> collect_entries(pds.entries, 1, EmptyMap)])]

\* the arm Segment::SingleObjectDefinition(sods)
sods_arm(l, sods) ==
    IF l.pcs = 0 THEN Fail(l, "MissingPresentationCompositionSegment")
    ELSE LET the_pcs == l.segments[l.pcs]
             vid == Vid(sods.id, sods.version)
             decompressed == rle_decompress(sods.data)
         IN  IF l.sequence \notin {"Single", "Final"} THEN Fail(l, "InvalidObjectSequence")
             ELSE IF sods.pts # the_pcs.pts THEN Fail(l, "InconsistentPts")
             ELSE IF sods.dts # the_pcs.dts THEN Fail(l, "InconsistentDts")
             ELSE IF vid \in DOMAIN l.objects THEN Fail(l, "DuplicateObjectVid")
             ELSE IF ~IsOk(decompressed) THEN Fail(l, decompressed.err)
             ELSE [l EXCEPT !.objects = MapInsert(@, vid,
                                 [width |-> sods.width, height |-> sods.height,
                                  lines |-> decompressed.out]),
                            !.sequence = "Single"]

\* a mutant of iods_arm: the sequence state is not looked at
iods_arm_any_state(l, iods, i) ==
    IF l.pcs = 0 THEN Fail(l, "MissingPresentationCompositionSegment")
    ELSE LET the_pcs == l.segments[l.pcs]
             vid == Vid(iods.id, iods.version)
         IN  IF iods.pts # the_pcs.pts THEN Fail(l, "InconsistentPts")
             ELSE IF iods.dts # the_pcs.dts THEN Fail(l, "InconsistentDts")
             ELSE IF vid \in DOMAIN l.objects THEN Fail(l, "DuplicateObjectVid")
             ELSE [l EXCEPT !.initial_object = i, !.sequence = "Initial"]

\* the arm Segment::InitialObjectDefinition(iods); i is its index in the slice
iods_arm(l, iods, i) ==
    IF l.pcs = 0 THEN Fail(l, "MissingPresentationCompositionSegment")
    ELSE LET the_pcs == l.segments[l.pcs]
             vid == Vid(iods.id, iods.version)
         IN  IF l.sequence \notin {"Single", "Final"} THEN Fail(l, "InvalidObjectSequence")
             ELSE IF iods.pts # the_pcs.pts THEN Fail(l, "InconsistentPts")
             ELSE IF iods.dts # the_pcs.dts THEN Fail(l, "InconsistentDts")
             ELSE IF vid \in DOMAIN l.objects THEN Fail(l, "DuplicateObjectVid")
             ELSE [l EXCEPT !.initial_object = i, !.sequence = "Initial"]

\* the arm Segment::MiddleObjectDefinition(mods); i is its index in the slice
mods_arm(l, mods, i) ==
    IF l.pcs = 0 THEN Fail(l, "MissingPresentationCompositionSegment")
    ELSE LET the_pcs == l.segments[l.pcs] IN
         IF l.sequence \notin {"Initial", "Middle"} THEN Fail(l, "InvalidObjectSequence")
         ELSE IF l.initial_object = 0 THEN Fail(l, "panic: initial_object is not set")
         ELSE LET iods == l.segments[l.initial_object] IN
              IF mods.pts # the_pcs.pts THEN Fail(l, "InconsistentPts")
              ELSE IF mods.dts # the_pcs.dts THEN Fail(l, "InconsistentDts")
              ELSE IF mods.id # iods.id THEN Fail(l, "InconsistentObjectId")
              ELSE IF mods.version # iods.version THEN Fail(l, "InconsistentObjectVersion")
              ELSE [l EXCEPT !.middle_objects = Append(@, i), !.sequence = "Middle"]

\* a mutant of fods_arm: the pending Initial fragment outlives its object
fods_arm_keeps_initial(l, fods, i) ==
    IF l.pcs = 0 THEN Fail(l, "MissingPresentationCompositionSegment")
    ELSE LET the_pcs == l.segments[l.pcs] IN
         IF l.sequence \notin {"Initial", "Middle"} THEN Fail(l, "InvalidObjectSequence")
         ELSE IF l.initial_object = 0 THEN Fail(l, "panic: initial_object is not set")
         ELSE LET iods == l.segments[l.initial_object]
                  vid == Vid(iods.id, iods.version)
                  bytes == iods.data \o middle_data(l.segments, l.middle_objects, 1)
                               \o fods.data
                  taken == {l.initial_object, i} \cup Range(l.middle_objects)
                  decompressed == rle_decompress(bytes)
              IN  IF fods.pts # the_pcs.pts THEN Fail(l, "InconsistentPts")
                  ELSE IF fods.dts # the_pcs.dts THEN Fail(l, "InconsistentDts")
                  ELSE IF fods.id # iods.id THEN Fail(l, "InconsistentObjectId")
                  ELSE IF fods.version # iods.version
                       THEN Fail(l, "InconsistentObjectVersion")
                  ELSE IF ~IsOk(decompressed)
                       THEN [l EXCEPT !.segments = drained(@, taken),
                                      !.err = decompressed.err]
                  ELSE [l EXCEPT !.segments = drained(@, taken),
                                 !.objects = MapInsert(@, vid,
                                     [width |-> iods.width, height |-> iods.height,
                                      lines |-> decompressed.out]),
                                 !.middle_objects = <<>>,
                                 !.sequence = "Final"]

\* a mutant of fods_arm: the version of the Final fragment is not compared
fods_arm_any_version(l, fods, i) ==
    IF l.pcs = 0 THEN Fail(l, "MissingPresentationCompositionSegment")
    ELSE LET the_pcs == l.segments[l.pcs] IN
         IF l.sequence \notin {"Initial", "Middle"} THEN Fail(l, "InvalidObjectSequence")
         ELSE IF l.initial_object = 0 THEN Fail(l, "panic: initial_object is not set")
         ELSE LET iods == l.segments[l.initial_object]
                  vid == Vid(iods.id, iods.version)
                  bytes == iods.data \o middle_data(l.segments, l.middle_objects, 1)
                               \o fods.data
                  taken == {l.initial_object, i} \cup Range(l.middle_objects)
                  decompressed == rle_decompress(bytes)
              IN  IF fods.pts # the_pcs.pts THEN Fail(l, "InconsistentPts")
                  ELSE IF fods.dts # the_pcs.dts THEN Fail(l, "InconsistentDts")
                  ELSE IF fods.id # iods.id THEN Fail(l, "InconsistentObjectId")
                  ELSE IF ~IsOk(decompressed)
                       THEN [l EXCEPT !.segments = drained(@, taken),
                                      !.err = decompressed.err]
                  ELSE [l EXCEPT !.segments = drained(@, taken),
                                 !.objects = MapInsert(@, vid,
                                     [width |-> iods.width, height |-> iods.height,
                                      lines |-> decompressed.out]),
                                 !.initial_object = 0,
                                 !.middle_objects = <<>>,
                                 !.sequence = "Final"]

\* the arm Segment::FinalObjectDefinition(fods); i is its index in the slice
fods_arm(l, fods, i) ==
    IF l.pcs = 0 THEN Fail(l, "MissingPresentationCompositionSegment")
    ELSE LET the_pcs == l.segments[l.pcs] IN
         IF l.sequence \notin {"Initial", "Middle"} THEN Fail(l, "InvalidObjectSequence")
         ELSE IF l.initial_object = 0 THEN Fail(l, "panic: initial_object is not set")
         ELSE LET iods == l.segments[l.initial_object]
                  vid == Vid(iods.id, iods.version)
                  bytes == iods.data \o middle_data(l.segments, l.middle_objects, 1)
                               \o fods.data
                  taken == {l.initial_object, i} \cup Range(l.middle_objects)
                  decompressed == rle_decompress(bytes)
              IN  IF fods.pts # the_pcs.pts THEN Fail(l, "InconsistentPts")
                  ELSE IF fods.dts # the_pcs.dts THEN Fail(l, "InconsistentDts")
                  ELSE IF fods.id # iods.id THEN Fail(l, "InconsistentObjectId")
                  ELSE IF fods.version # iods.version
                       THEN Fail(l, "InconsistentObjectVersion")
                  ELSE IF ~IsOk(decompressed)
                       THEN [l EXCEPT !.segments = drained(@, taken),
                                      !.err = decompressed.err]
                  ELSE [l EXCEPT !.segments = drained(@, taken),
                                 !.objects = MapInsert(@, vid,
                                     [width |-> iods.width, height |-> iods.height,
                                      lines |-> decompressed.out]),
                                 !.initial_object = 0,
                                 !.middle_objects = <<>>,
                                 !.sequence = "Final"]

\* a mutant of es_arm: the sequence state is not looked at
es_arm_unchecked(l, this_es, i) ==
    IF l.pcs = 0 THEN Fail(l, "MissingPresentationCompositionSegment")
    ELSE LET the_pcs == l.segments[l.pcs] IN
         IF this_es.pts # the_pcs.pts THEN Fail(l, "InconsistentPts")
         ELSE IF this_es.dts # the_pcs.dts THEN Fail(l, "InconsistentDts")
         ELSE [l EXCEPT !.es = i]

\* the arm Segment::End(this_es); i is its index in the slice
es_arm(l, this_es, i) ==
    IF l.pcs = 0 THEN Fail(l, "MissingPresentationCompositionSegment")
    ELSE LET the_pcs == l.segments[l.pcs] IN
         IF l.sequence \notin {"Single", "Final"} THEN Fail(l, "IncompleteObjectSequence")
         ELSE IF this_es.pts # the_pcs.pts THEN Fail(l, "InconsistentPts")
         ELSE IF this_es.dts # the_pcs.dts THEN Fail(l, "InconsistentDts")
         ELSE [l EXCEPT !.es = i]

\* one iteration of `for segment in value.iter_mut()`, on the segment at index i
try_from_segment(l, i) ==
    LET segment == l.segments[i] IN
    IF l.es # 0 THEN Fail(l, "SegmentAfterEnd")
    ELSE CASE segment.kind = "PresentationComposition" ->
                  IF l.pcs = 0 THEN [l EXCEPT !.pcs = i]
                  ELSE Fail(l, "UnexpectedPresentationCompositionSegment")
           [] segment.kind = "WindowDefinition" -> wds_arm(l, segment)
           [] segment.kind = "PaletteDefinition" -> pds_arm(l, segment)
           [] segment.kind = "SingleObjectDefinition" -> sods_arm(l, segment)
           [] segment.kind = "InitialObjectDefinition" -> iods_arm(l, segment, i)
           [] segment.kind = "MiddleObjectDefinition" -> mods_arm(l, segment, i)
           [] segment.kind = "FinalObjectDefinition" -> fods_arm(l, segment, i)
           [] segment.kind = "End" -> es_arm(l, segment, i)

\* the composition objects of the PCS from object n on, keyed by Cid
RECURSIVE insert_composition_objects(_, _, _)
insert_composition_objects(cos, n, m) ==
    IF n > Len(cos) THEN m
    ELSE insert_composition_objects(cos, n + 1,
             MapInsert(m, Cid(cos[n].object_id, cos[n].window_id),
                 [x |-> cos[n].x, y |-> cos[n].y, crop |-> cos[n].crop]))

NoDisplaySet == [pts |-> 0]

\* a mutant of try_from_finish: the palette is looked up by version
try_from_finish_by_version(l) ==
    IF l.pcs = 0 THEN [err |-> "panic: PCS is not set, somehow", ds |-> NoDisplaySet]
    ELSE LET the_pcs == l.segments[l.pcs]
             composition ==
                 [number |-> the_pcs.composition_number,
                  state |-> the_pcs.composition_state,
                  objects |-> insert_composition_objects(
                                  the_pcs.composition_objects, 1, EmptyMap)]
         IN  IF /\ the_pcs.palette_update_id.some
                /\ ~\E vid \in DOMAIN l.palettes : vid[2] = the_pcs.palette_update_id.v
             THEN [err |-> "PaletteUpdateReferencesUnknownPaletteId", ds |-> NoDisplaySet]
             ELSE [err |-> "None",
                   ds |-> [pts |-> the_pcs.pts, dts |-> the_pcs.dts,
                           width |-> the_pcs.width, height |-> the_pcs.height,
                           frame_rate |-> the_pcs.frame_rate,
                           palette_update_id |-> the_pcs.palette_update_id,
                           windows |-> l.windows, palettes |-> l.palettes,
                           objects |-> l.objects, composition |-> composition]]

\* the part of try_from after the loop: the Result it returns
try_from_finish(l) ==
    IF l.pcs = 0 THEN [err |-> "panic: PCS is not set, somehow", ds |-> NoDisplaySet]
    ELSE LET the_pcs == l.segments[l.pcs]
             composition ==
                 [number |-> the_pcs.composition_number,
                  state |-> the_pcs.composition_state,
                  objects |-> insert_composition_objects(
                                  the_pcs.composition_objects, 1, EmptyMap)]
         IN  IF /\ the_pcs.palette_update_id.some
                /\ ~\E vid \in DOMAIN l.palettes : vid[1] = the_pcs.palette_update_id.v
             THEN [err |-> "PaletteUpdateReferencesUnknownPaletteId", ds |-> NoDisplaySet]
             ELSE [err |-> "None",
                   ds |-> [pts |-> the_pcs.pts, dts |-> the_pcs.dts,
                           width |-> the_pcs.width, height |-> the_pcs.height,
                           frame_rate |-> the_pcs.frame_rate,
                           palette_update_id |-> the_pcs.palette_update_id,
                           windows |-> l.windows, palettes |-> l.palettes,
                           objects |-> l.objects, composition |-> composition]]

\* the whole of try_from on a slice
RECURSIVE try_from_loop(_, _)
try_from_loop(l, i) ==
    IF l.err # "None" THEN [err |-> l.err, ds |-> NoDisplaySet]
    ELSE IF i > Len(l.segments) THEN try_from_finish(l)
    ELSE try_from_loop(try_from_segment(l, i), i + 1)

try_from(value) == try_from_loop(try_from_locals(value), 1)

(***************************************************************************)
(* displaysetwrite.rs: to_segments and write_display_set.                  *)
(***************************************************************************)
IODS_DATA_SIZE == 65508

MODS_DATA_SIZE == 65515

\* the order a BTreeMap<u8, _> iterates its keys in
RECURSIVE AscendingIds(_)
AscendingIds(keys) ==
    IF keys = {} THEN <<>>
    ELSE LET least == CHOOSE k \in keys : \A other \in keys : k <= other
         IN  <<least>> \o AscendingIds(keys \ {least})

\* a mutant of AscendingPairs: by the second field, then by the first
RECURSIVE AscendingPairs_by_second(_)
AscendingPairs_by_second(keys) ==
    IF keys = {} THEN <<>>
    ELSE LET least == CHOOSE k \in keys :
                          \A other \in keys :
                              \/ k[2] < other[2]
                              \/ (k[2] = other[2] /\ k[1] <= other[1])
         IN  <<least>> \o AscendingPairs_by_second(keys \ {least})

\* the order a BTreeMap iterates Vid or Cid keys in: by the first field, then by
\* the second (the derived Ord)
RECURSIVE AscendingPairs(_)
AscendingPairs(keys) ==
    IF keys = {} THEN <<>>
    ELSE LET least == CHOOSE k \in keys :
                          \A other \in keys :
                              \/ k[1] < other[1]
                              \/ (k[1] = other[1] /\ k[2] <= other[2])
         IN  <<least>> \o AscendingPairs(keys \ {least})

\* a mutant of rest_of_object: a Middle ODS takes IODS_DATA_SIZE bytes
RECURSIVE rest_of_object_iods_size(_, _, _, _, _)
rest_of_object_iods_size(ds, vid, bytes, index, size) ==
    IF size > MODS_DATA_SIZE
    THEN <<MiddleObjectDefinitionSegment(ds.pts, ds.dts, vid[1], vid[2],
               SubSeq(bytes, index + 1, index + IODS_DATA_SIZE))>>
             \o rest_of_object_iods_size(ds, vid, bytes, index + IODS_DATA_SIZE,
                                         size - IODS_DATA_SIZE)
    ELSE <<FinalObjectDefinitionSegment(ds.pts, ds.dts, vid[1], vid[2],
               SubSeq(bytes, index + 1, Len(bytes)))>>

\* the loop `while size > MODS_DATA_SIZE` and the Final ODS after it
RECURSIVE rest_of_object(_, _, _, _, _)
rest_of_object(ds, vid, bytes, index, size) ==
    IF size > MODS_DATA_SIZE
    THEN <<MiddleObjectDefinitionSegment(ds.pts, ds.dts, vid[1], vid[2],
               SubSeq(bytes, index + 1, index + MODS_DATA_SIZE))>>
             \o rest_of_object(ds, vid, bytes, index + MODS_DATA_SIZE,
                               size - MODS_DATA_SIZE)
    ELSE <<FinalObjectDefinitionSegment(ds.pts, ds.dts, vid[1], vid[2],
               SubSeq(bytes, index + 1, Len(bytes)))>>

\* a mutant of object_segments: data of IODS_DATA_SIZE bytes is split too
object_segments_at_bound(ds, vid, bytes) ==
    IF Len(bytes) >= IODS_DATA_SIZE
    THEN <<InitialObjectDefinitionSegment(ds.pts, ds.dts, vid[1], vid[2],
               Len(bytes) + 4, ds.objects[vid].width, ds.objects[vid].height,
               SubSeq(bytes, 1, IODS_DATA_SIZE))>>
             \o rest_of_object(ds, vid, bytes, IODS_DATA_SIZE,
                               Len(bytes) - IODS_DATA_SIZE)
    ELSE <<SingleObjectDefinitionSegment(ds.pts, ds.dts, vid[1], vid[2],
               ds.objects[vid].width, ds.objects[vid].height, bytes)>>

\* the segments pushed for one object whose compressed data is bytes
object_segments(ds, vid, bytes) ==
    IF Len(bytes) > IODS_DATA_SIZE
    THEN <<InitialObjectDefinitionSegment(ds.pts, ds.dts, vid[1], vid[2],
               Len(bytes) + 4, ds.objects[vid].width, ds.objects[vid].height,
               SubSeq(bytes, 1, IODS_DATA_SIZE))>>
             \o rest_of_object(ds, vid, bytes, IODS_DATA_SIZE,
                               Len(bytes) - IODS_DATA_SIZE)
    ELSE <<SingleObjectDefinitionSegment(ds.pts, ds.dts, vid[1], vid[2],
               ds.objects[vid].width, ds.objects[vid].height, bytes)>>

\* the loop `for (vid, object) in &self.objects` from the n-th key on
RECURSIVE objects_segments(_, _, _, _)
objects_segments(ds, vids, n, res) ==
    IF n > Len(vids) \/ ~IsOk(res) THEN res
    ELSE LET compressed == rle_compress(ds.objects[vids[n]].lines) IN
         objects_segments(ds, vids, n + 1,
             IF IsOk(compressed)
             THEN Ok(res.out \o object_segments(ds, vids[n], compressed.out))
             ELSE compressed)

\* the segments pushed before the loop over the objects: the PCS, the WDS unless
\* windows is empty, a PDS for each palette
head_segments(ds) ==
    LET cids == AscendingPairs(DOMAIN ds.composition.objects)
        ids == AscendingIds(DOMAIN ds.windows)
        palette_vids == AscendingPairs(DOMAIN ds.palettes)
        the_pcs == PresentationCompositionSegment(
                       ds.pts, ds.dts, ds.width, ds.height, ds.frame_rate,
                       ds.composition.number, ds.composition.state, ds.palette_update_id,
                       [n \in 1..Len(cids) |->
                           CompositionObject(cids[n][1], cids[n][2],
                                             ds.composition.objects[cids[n]].x,
                                             ds.composition.objects[cids[n]].y,
                                             ds.composition.objects[cids[n]].crop)])
        the_wds == WindowDefinitionSegment(
                       ds.pts, ds.dts,
                       [n \in 1..Len(ids) |->
                           WindowDefinition(ids[n], ds.windows[ids[n]].x,
                                            ds.windows[ids[n]].y, ds.windows[ids[n]].width,
                                            ds.windows[ids[n]].height)])
        the_pds(vid) ==
            LET entries == ds.palettes[vid].entries
                entry_ids == AscendingIds(DOMAIN entries)
            IN  PaletteDefinitionSegment(
                    ds.pts, ds.dts, vid[1], vid[2],
                    [n \in 1..Len(entry_ids) |->
                        PaletteEntry(entry_ids[n], entries[entry_ids[n]].y,
                                     entries[entry_ids[n]].cr, entries[entry_ids[n]].cb,
                                     entries[entry_ids[n]].alpha)])
    IN  <<the_pcs>> \o (IF DOMAIN ds.windows # {} THEN <<the_wds>> ELSE <<>>)
            \o [n \in 1..Len(palette_vids) |-> the_pds(palette_vids[n])]

to_segments(ds) ==
    LET with_objects ==
            objects_segments(ds, AscendingPairs(DOMAIN ds.objects), 1,
                             Ok(head_segments(ds)))
    IN  IF IsOk(with_objects)
        THEN Ok(Append(with_objects.out, EndSegment(ds.pts, ds.dts)))
        ELSE with_objects

\* the loop `for segment in segments.into_iter()` from segment n on
RECURSIVE write_segments(_, _, _)
write_segments(segs, n, written) ==
    IF n > Len(segs) THEN [err |-> "None", out |-> written]
    ELSE LET one == write_segment(segs[n]) IN
         IF IsOk(one) THEN write_segments(segs, n + 1, written \o one.out)
         ELSE [err |-> "SegmentError", out |-> written \o one.out, source |-> one.err]

write_display_set(ds) ==
    LET segs == to_segments(ds) IN
    IF IsOk(segs) THEN write_segments(segs.out, 1, <<>>)
    ELSE [err |-> segs.err, out |-> <<>>]

(***************************************************************************)
(* Inputs of the run-length codec: lines built from runs whose lengths sit *)
(* on the arms of output_rle_sequence.                                     *)
(***************************************************************************)
RleBytes == {0, 1, 2}

RunLengths == {1, 2, 3, 63, 64}

\* an item is a run of one byte or the end of a line
RleItems == [byte : RleBytes, count : RunLengths] \cup {[byte |-> 0, count |-> 0]}

IsEol(item) == item.count = 0

RECURSIVE ItemSeqs(_)
ItemSeqs(n) ==
    IF n = 0 THEN {<<>>}
    ELSE LET shorter == ItemSeqs(n - 1)
         IN  shorter \cup {Append(s, it) : s \in {t \in shorter : Len(t) = n - 1},
                                            it \in RleItems}

\* the lines an item sequence spells, each ended by an end-of-line item
RECURSIVE LinesOf(_, _, _, _)
LinesOf(items, i, line, acc) ==
    IF i > Len(items) THEN acc
    ELSE IF IsEol(items[i]) THEN LinesOf(items, i + 1, <<>>, Append(acc, line))
    ELSE LinesOf(items, i + 1, line \o Repeat(items[i].byte, items[i].count), acc)

EolItem == [byte |-> 0, count |-> 0]

\* every list of lines spelled by at most MaxItems items, the last an end of line
RleInputs ==
    {<<>>} \cup {LinesOf(Append(s, EolItem), 1, <<>>, <<>>) : s \in ItemSeqs(MaxItems - 1)}

Idle == Err("Idle")

\* no new_item_offset call under way
ModIdle == call = [made |-> FALSE] /\ returned = Idle

(***************************************************************************)
(* The run-length codec cycle: compress the lines, decompress the bytes.   *)
(***************************************************************************)
\* the variables of the other operations, at rest
ReadIdle ==
    /\ focus = "none"
    /\ stream = <<>>
    /\ segments = <<>>
    /\ idx = 0
    /\ pcs = 0
    /\ es = 0
    /\ sequence = "Single"
    /\ initial_object = 0
    /\ middle_objects = <<>>
    /\ windows = EmptyMap
    /\ palettes = EmptyMap
    /\ objects = EmptyMap
    /\ result = [err |-> "Pending", ds |-> NoDisplaySet]

NoSegment == [kind |-> "None"]

\* the variables of the cycles through a buffer, at rest
CodecIdle ==
    /\ input_segment = NoSegment
    /\ display_set = NoDisplaySet
    /\ sink = Idle
    /\ cursor = 1
    /\ object_iter = <<>>
    /\ cycled = Idle

InitRle ==
    /\ pc = "rle_start"
    /\ lines \in RleInputs
    /\ data = Idle
    /\ decoded = Idle
    /\ ReadIdle
    /\ CodecIdle
    /\ ModIdle

RleCompress ==
    /\ pc = "rle_start"
    /\ data' = rle_compress(lines)
    /\ pc' = "rle_compressed"
    /\ UNCHANGED <<lines, decoded, readVars, codecVars, modVars>>

RleDecompress ==
    /\ pc = "rle_compressed"
    /\ IsOk(data)
    /\ decoded' = rle_decompress(data.out)
    /\ pc' = "rle_done"
    /\ UNCHANGED <<lines, data, readVars, codecVars, modVars>>

NextRle == RleCompress \/ RleDecompress

SpecRle == InitRle /\ [][NextRle]_vars

\* C3: whenever rle_compress accepts the lines, rle_decompress of its output
\* succeeds and returns exactly those lines
C3_RleRoundTrip ==
    pc = "rle_done" => (IsOk(decoded) /\ decoded.out = lines)

\* C3 witness: a cycle over two lines, a run of 64 and a non-zero run of 63
C3_Witness ==
    /\ pc = "rle_done"
    /\ Len(lines) = 2
    /\ Len(lines[1]) = 64
    /\ Len(lines[2]) = 63
    /\ lines[2][1] # 0
    /\ decoded.out = lines

(***************************************************************************)
(* displaysetread.rs: read_display_set.  A read_segment call returns a     *)
(* Segment or a SegmentReadError; the latter is a record of kind           *)
(* "ReadError".                                                            *)
(***************************************************************************)
ReadError(source) == [kind |-> "ReadError", source |-> source]

Pending == [err |-> "Pending", ds |-> NoDisplaySet]

Returned(e) == [err |-> e, ds |-> NoDisplaySet]

\* `?` on a failed read_segment: ReadError::SegmentError { source }
SegmentError(r) == [err |-> "SegmentError", ds |-> NoDisplaySet, source |-> r.source]

\* the match on the first read_segment call
read_first(r) ==
    IF r.kind = "ReadError"
    THEN [pc |-> "done", segments |-> <<>>, result |-> SegmentError(r)]
    ELSE IF r.kind = "PresentationComposition"
    THEN [pc |-> "read_loop", segments |-> <<r>>, result |-> Pending]
    ELSE [pc |-> "done", segments |-> <<>>,
          result |-> Returned("MissingPresentationCompositionSegment")]

\* a mutant of read_next: a second PCS ends the run like an ES, unpushed
read_next_pcs_ends(segs, r) ==
    IF r.kind = "ReadError"
    THEN [pc |-> "done", segments |-> segs, result |-> SegmentError(r)]
    ELSE IF r.kind = "PresentationComposition"
    THEN [pc |-> "try_from", segments |-> segs, result |-> Pending]
    ELSE IF r.kind = "End"
    THEN [pc |-> "try_from", segments |-> Append(segs, r), result |-> Pending]
    ELSE [pc |-> "read_loop", segments |-> Append(segs, r), result |-> Pending]

\* one iteration of the loop over the later read_segment calls
read_next(segs, r) ==
    IF r.kind = "ReadError"
    THEN [pc |-> "done", segments |-> segs, result |-> SegmentError(r)]
    ELSE IF r.kind = "PresentationComposition"
    THEN [pc |-> "done", segments |-> segs,
          result |-> Returned("UnexpectedPresentationCompositionSegment")]
    ELSE IF r.kind = "End"
    THEN [pc |-> "try_from", segments |-> Append(segs, r), result |-> Pending]
    ELSE [pc |-> "read_loop", segments |-> Append(segs, r), result |-> Pending]

(***************************************************************************)
(* The segments a source may hold.  The leading PCS carries pts 1, dts 2.  *)
(***************************************************************************)
SampleCrop == Some(Crop(1, 2, 3, 4))

SampleCompositionObjects ==
    <<CompositionObject(0, 0, 10, 20, None), CompositionObject(1, 0, 30, 40, SampleCrop),
      CompositionObject(0, 0, 50, 60, None)>>

SamplePcs(palette_update_id) ==
    PresentationCompositionSegment(1, 2, 1920, 1080, 16, 7, "EpochStart",
                                   palette_update_id, SampleCompositionObjects)

SampleWindow(id, x) == WindowDefinition(id, x, 0, 1920, 1080)

SampleEntries(y) == <<PaletteEntry(0, y, 128, 128, 255), PaletteEntry(1, y, 0, 0, 0)>>

SampleWds(pts, dts) == WindowDefinitionSegment(pts, dts, <<SampleWindow(0, 0)>>)

SamplePds(pts, dts, id, version) ==
    PaletteDefinitionSegment(pts, dts, id, version, SampleEntries(16))

\* a Single ODS of one line holding the byte `pixel`
SampleSods(pts, dts, id, version, pixel) ==
    SingleObjectDefinitionSegment(pts, dts, id, version, 1, 1, <<pixel, 0, 0>>)

\* the fragments of a split object: a literal 1 and the first byte of an opcode;
\* the rest of a run of two 2s; a count of three 0s or a literal 3; the end of line
SampleIods(pts, dts, id, version) ==
    InitialObjectDefinitionSegment(pts, dts, id, version, 9, 4, 1, <<1, 0>>)

SampleModsRun(pts, dts, id, version) ==
    MiddleObjectDefinitionSegment(pts, dts, id, version, <<130, 2>>)

SampleModsByte(pts, dts, id, version) ==
    MiddleObjectDefinitionSegment(pts, dts, id, version, <<3>>)

SampleFods(pts, dts, id, version) ==
    FinalObjectDefinitionSegment(pts, dts, id, version, <<0, 0>>)

Foci == {"sequence", "timestamps", "identifiers", "objects", "palette"}

\* what the first read_segment call may return
FirstReads(f) ==
    IF f = "palette"
    THEN {SamplePcs(None), SamplePcs(Some(0)), SamplePcs(Some(1)),
          SampleWds(1, 2), EndSegment(1, 2), ReadError("UnexpectedEof")}
    ELSE {SamplePcs(None)}

\* what a later read_segment call may return and leave the loop running
LaterReads(f) ==
    CASE f = "sequence" ->
             {SampleSods(1, 2, 0, 0, 1), SampleIods(1, 2, 1, 0),
              SampleModsRun(1, 2, 1, 0), SampleModsByte(1, 2, 1, 0),
              SampleFods(1, 2, 1, 0), SampleWds(1, 2), SamplePds(1, 2, 0, 0)}
      [] f = "timestamps" ->
             {SampleWds(1, 2), SampleWds(2, 2), SampleWds(1, 1), SampleWds(2, 1),
              SamplePds(1, 1, 0, 0), SampleSods(2, 2, 0, 0, 1), SampleIods(1, 2, 1, 0),
              SampleModsRun(2, 2, 1, 0), SampleFods(1, 1, 1, 0)}
      [] f = "identifiers" ->
             {WindowDefinitionSegment(1, 2, <<SampleWindow(0, 0)>>),
              WindowDefinitionSegment(1, 2, <<SampleWindow(1, 0), SampleWindow(0, 8)>>),
              WindowDefinitionSegment(1, 2, <<SampleWindow(2, 0), SampleWindow(2, 8)>>),
              SamplePds(1, 2, 0, 0),
              PaletteDefinitionSegment(1, 2, 0, 0, SampleEntries(32)),
              SamplePds(1, 2, 0, 1), SamplePds(1, 2, 1, 0)}
      [] f = "objects" ->
             {SampleSods(1, 2, 0, 0, 1), SampleSods(1, 2, 0, 0, 2),
              SampleSods(1, 2, 0, 1, 1), SampleIods(1, 2, 0, 0),
              SampleModsRun(1, 2, 0, 0), SampleModsRun(1, 2, 1, 0),
              SampleFods(1, 2, 0, 0), SampleFods(1, 2, 0, 1)}
      [] f = "palette" ->
             {SamplePds(1, 2, 0, 0), SamplePds(1, 2, 0, 1), SamplePds(1, 2, 1, 0),
              SampleWds(1, 2), SampleSods(1, 2, 0, 0, 1)}

\* what a later read_segment call may return and end the loop
LastReads(f) ==
    IF f = "timestamps"
    THEN {EndSegment(1, 2), EndSegment(2, 2), EndSegment(1, 1), EndSegment(2, 1),
          SamplePcs(None)}
    ELSE {EndSegment(1, 2), SamplePcs(None), ReadError("UnexpectedEof")}

(***************************************************************************)
(* read_display_set as a state machine: the reads, then try_from one loop  *)
(* iteration at a time, then the part of try_from after the loop.          *)
(***************************************************************************)
RleIdle == lines = <<>> /\ data = Idle /\ decoded = Idle

Init ==
    /\ pc = "read_first"
    /\ focus \in Foci
    /\ stream = <<>>
    /\ segments = <<>>
    /\ idx = 0
    /\ pcs = 0
    /\ es = 0
    /\ sequence = "Single"
    /\ initial_object = 0
    /\ middle_objects = <<>>
    /\ windows = EmptyMap
    /\ palettes = EmptyMap
    /\ objects = EmptyMap
    /\ result = Pending
    /\ RleIdle
    /\ ModIdle
    /\ CodecIdle

tryVars == <<idx, pcs, es, sequence, initial_object, middle_objects, windows, palettes,
             objects>>

\* self.read_segment() on the buffer, as read_display_set sees it
FromSink ==
    LET r == read_segment(sink.out, cursor)
    IN  IF IsOk(r) THEN r.out ELSE ReadError(r.err)

\* the cursor after a read_segment call
Advanced == IF focus = "sink" THEN read_segment(sink.out, cursor).next ELSE cursor

ReadFirst ==
    /\ pc = "read_first"
    /\ \E r \in (IF focus = "sink" THEN {FromSink} ELSE FirstReads(focus)) :
           LET after == read_first(r) IN
           /\ stream' = <<r>>
           /\ segments' = after.segments
           /\ result' = after.result
           /\ pc' = after.pc
    /\ cursor' = Advanced
    /\ UNCHANGED <<focus, tryVars, rleVars, modVars, input_segment, display_set, sink, object_iter, cycled>>

ReadNext ==
    /\ pc = "read_loop"
    /\ Len(stream) < MaxSegs
    /\ \E r \in (IF focus = "sink" THEN {FromSink}
                ELSE (IF Len(stream) < MaxSegs - 1 THEN LaterReads(focus) ELSE {})
                         \cup LastReads(focus)) :
           LET after == read_next(segments, r) IN
           /\ stream' = Append(stream, r)
           /\ segments' = after.segments
           /\ result' = after.result
           /\ pc' = after.pc
    /\ cursor' = Advanced
    /\ UNCHANGED <<focus, tryVars, rleVars, modVars, input_segment, display_set, sink, object_iter, cycled>>

\* the locals of try_from as the variables hold them
Locals ==
    [pcs |-> pcs, es |-> es, sequence |-> sequence, initial_object |-> initial_object,
     middle_objects |-> middle_objects, windows |-> windows, palettes |-> palettes,
     objects |-> objects, segments |-> segments, err |-> "None"]

TryFromSegment ==
    /\ pc = "try_from"
    /\ idx < Len(segments)
    /\ LET l == try_from_segment(Locals, idx + 1) IN
       /\ idx' = idx + 1
       /\ pcs' = l.pcs
       /\ es' = l.es
       /\ sequence' = l.sequence
       /\ initial_object' = l.initial_object
       /\ middle_objects' = l.middle_objects
       /\ windows' = l.windows
       /\ palettes' = l.palettes
       /\ objects' = l.objects
       /\ segments' = l.segments
       /\ IF l.err = "None"
          THEN UNCHANGED <<pc, result>>
          ELSE pc' = "done" /\ result' = Returned(l.err)
    /\ UNCHANGED <<focus, stream, rleVars, modVars, codecVars>>

TryFromFinish ==
    /\ pc = "try_from"
    /\ idx = Len(segments)
    /\ result' = try_from_finish(Locals)
    /\ pc' = "done"
    /\ UNCHANGED <<focus, stream, segments, tryVars, rleVars, modVars, codecVars>>

Next == ReadFirst \/ ReadNext \/ TryFromSegment \/ TryFromFinish

Spec == Init /\ [][Next]_vars

TypeOK ==
    /\ pc \in {"read_first", "read_loop", "try_from", "done"}
    /\ sequence \in {"Single", "Initial", "Middle", "Final"}
    /\ idx \in 0..Len(segments)
    /\ Len(stream) <= MaxSegs

(***************************************************************************)
(* The segment cycle of segment/tests.rs: write one segment to an empty    *)
(* buffer, read one segment back.                                          *)
(***************************************************************************)
CropFree == <<CompositionObject(513, 1, 300, 400, None)>>

Cropped == <<CompositionObject(513, 1, 300, 400, Some(Crop(10, 20, 640, 480)))>>

SampleSegments ==
    {PresentationCompositionSegment(90000, 89000, 1920, 1080, 16, 258, state, pu, cos) :
         state \in {"Normal", "AcquisitionPoint", "EpochStart"},
         pu \in {None, Some(0), Some(7)},
         cos \in {<<>>, CropFree, Cropped, CropFree \o Cropped, Cropped \o CropFree}}
    \cup {WindowDefinitionSegment(90000, 89000, SubSeq(ws, 1, n)) :
              ws \in {<<WindowDefinition(0, 1, 2, 1920, 1080),
                        WindowDefinition(1, 300, 400, 500, 600)>>},
              n \in 0..2}
    \cup {PaletteDefinitionSegment(90000, 89000, 3, version, SubSeq(SampleEntries(y), 1, n)) :
              version \in {0, 1}, y \in {16, 235}, n \in 0..2}
    \cup {SingleObjectDefinitionSegment(90000, 89000, 513, 0, 4, 1, bytes) :
              bytes \in {<<0, 0>>, <<1, 0, 130, 2, 3, 0, 0>>}}
    \cup {InitialObjectDefinitionSegment(90000, 89000, 513, 0, length, 4, 1, <<1, 0>>) :
              length \in {6, 11}}
    \cup {MiddleObjectDefinitionSegment(90000, 89000, 513, 0, <<130, 2, 3>>),
          FinalObjectDefinitionSegment(90000, 89000, 513, 0, <<0, 0>>),
          EndSegment(90000, 89000)}

InitSeg ==
    /\ pc = "seg_start"
    /\ input_segment \in SampleSegments
    /\ display_set = NoDisplaySet
    /\ sink = Idle
    /\ cursor = 1
    /\ object_iter = <<>>
    /\ cycled = Idle
    /\ ReadIdle
    /\ RleIdle
    /\ ModIdle

\* buffer.write_segment(&segment)
WriteSegment ==
    /\ pc = "seg_start"
    /\ sink' = write_segment(input_segment)
    /\ pc' = "seg_written"
    /\ UNCHANGED <<input_segment, display_set, cursor, object_iter, cycled, readVars, rleVars, modVars>>

\* cursor.read_segment() on the buffer written (the test unwraps the write)
ReadSegment ==
    /\ pc = "seg_written"
    /\ IsOk(sink)
    /\ cycled' = read_segment(sink.out, cursor)
    /\ cursor' = cycled'.next
    /\ pc' = "seg_done"
    /\ UNCHANGED <<input_segment, display_set, sink, object_iter, readVars, rleVars, modVars>>

NextSeg == WriteSegment \/ ReadSegment

SpecSeg == InitSeg /\ [][NextSeg]_vars

(***************************************************************************)
(* The display set cycle of displayset/tests.rs: write one display set to  *)
(* an empty buffer, read one display set back.  read_segment gives an ODS  *)
(* as an ObjectDefinition, which try_from has no arm for, so the display   *)
(* sets of the cycle hold no objects.                                      *)
(***************************************************************************)
SampleWindows ==
    {EmptyMap,
     [id \in {0} |-> [x |-> 1, y |-> 2, width |-> 1920, height |-> 1080]],
     [id \in {0, 1} |-> [x |-> 300 * id, y |-> 2, width |-> 500, height |-> 600]]}

SamplePalette ==
    [entries |-> [id \in {0, 1} |-> [y |-> 16 + id, cr |-> 128, cb |-> 128, alpha |-> 255]]]

\* the palettes of a display set with its palette_update_id, which names one
SamplePalettes ==
    {[palettes |-> EmptyMap, palette_update_id |-> None],
     [palettes |-> [vid \in {<<0, 0>>} |-> SamplePalette], palette_update_id |-> None],
     [palettes |-> [vid \in {<<0, 0>>} |-> SamplePalette], palette_update_id |-> Some(0)],
     [palettes |-> [vid \in {<<0, 1>>, <<1, 0>>} |-> SamplePalette],
      palette_update_id |-> Some(1)]}

SampleCompositions ==
    {EmptyMap,
     [cid \in {<<513, 1>>} |-> [x |-> 300, y |-> 400, crop |-> None]],
     [cid \in {<<513, 1>>, <<2, 0>>} |-> [x |-> 300, y |-> cid[1], crop |-> None]],
     [cid \in {<<513, 1>>} |-> [x |-> 300, y |-> 400, crop |-> Some(Crop(10, 20, 640, 480))]],
     [cid \in {<<513, 1>>, <<2, 0>>} |->
         [x |-> 300, y |-> 400,
          crop |-> IF cid[2] = 0 THEN Some(Crop(10, 20, 640, 480)) ELSE None]]}

SampleDisplaySets ==
    {[pts |-> 90000, dts |-> 89000, width |-> 1920, height |-> 1080, frame_rate |-> 16,
      palette_update_id |-> p.palette_update_id, windows |-> w, palettes |-> p.palettes,
      objects |-> EmptyMap,
      composition |-> [number |-> 258, state |-> "EpochStart", objects |-> c]] :
         w \in SampleWindows, p \in SamplePalettes, c \in SampleCompositions}

InitDs ==
    /\ pc = "ds_start"
    /\ display_set \in SampleDisplaySets
    /\ input_segment = NoSegment
    /\ sink = Idle
    /\ cursor = 1
    /\ object_iter = <<>>
    /\ cycled = Idle
    /\ ReadIdle
    /\ RleIdle
    /\ ModIdle

\* buffer.write_display_set(&display_set); the reader then starts on the buffer
WriteDisplaySet ==
    /\ pc = "ds_start"
    /\ sink' = write_display_set(display_set)
    /\ pc' = IF IsOk(sink') THEN "read_first" ELSE "write_failed"
    /\ focus' = "sink"
    /\ UNCHANGED <<input_segment, display_set, cursor, object_iter, cycled, stream, segments,
                   tryVars, result, rleVars, modVars>>

NextDs == WriteDisplaySet \/ ReadFirst \/ ReadNext \/ TryFromSegment \/ TryFromFinish

SpecDs == InitDs /\ [][NextDs]_vars

\* C2: a segment that was written is read back equal
C2_SegmentRoundTrip ==
    pc = "seg_done" => (IsOk(cycled) /\ cycled.out = input_segment)

\* C1: a display set that was written is read back equal
C1_DisplaySetRoundTrip ==
    (pc = "done" /\ focus = "sink") => (IsOk(result) /\ result.ds = display_set)

(***************************************************************************)
(* Properties of read_display_set.  stream[n] is the n-th segment as it    *)
(* was read; try_from takes it in the step that moves idx to n.            *)
(***************************************************************************)
OdsKinds ==
    {"SingleObjectDefinition", "InitialObjectDefinition", "MiddleObjectDefinition",
     "FinalObjectDefinition"}

\* the kinds of the ODS segments among the first n segments read, in order
OdsKindsRead(n) ==
    SelectSeq([i \in 1..n |-> stream[i].kind], LAMBDA k : k \in OdsKinds)

\* ks from position i on completes a word of (Single | Initial Middle* Final)*,
\* open telling whether an Initial is waiting for its Final
RECURSIVE IsWordFrom(_, _, _)
IsWordFrom(ks, i, open) ==
    IF i > Len(ks) THEN ~open
    ELSE CASE ks[i] = "SingleObjectDefinition" -> ~open /\ IsWordFrom(ks, i + 1, FALSE)
           [] ks[i] = "InitialObjectDefinition" -> ~open /\ IsWordFrom(ks, i + 1, TRUE)
           [] ks[i] = "MiddleObjectDefinition" -> open /\ IsWordFrom(ks, i + 1, TRUE)
           [] ks[i] = "FinalObjectDefinition" -> open /\ IsWordFrom(ks, i + 1, FALSE)

StateAfter(kind) ==
    CASE kind = "SingleObjectDefinition" -> "Single"
      [] kind = "InitialObjectDefinition" -> "Initial"
      [] kind = "MiddleObjectDefinition" -> "Middle"
      [] kind = "FinalObjectDefinition" -> "Final"

\* the sequence state admits an ODS of this kind
Fits(kind) ==
    IF kind \in {"SingleObjectDefinition", "InitialObjectDefinition"}
    THEN sequence \in {"Single", "Final"}
    ELSE sequence \in {"Initial", "Middle"}

\* C4: an ODS taken in a state that does not admit its kind fails the read with
\* InvalidObjectSequence; an ODS that is accepted was admitted and moves the state
\* to the one of its kind; and the ODS kinds of a run that is read successfully
\* form a word of (Single | Initial Middle* Final)*
C4_ObjectSequence ==
    [][/\ (pc = "try_from" /\ idx' = idx + 1 /\ stream[idx'].kind \in OdsKinds) =>
              /\ ~Fits(stream[idx'].kind) =>
                     (pc' = "done" /\ result'.err = "InvalidObjectSequence")
              /\ pc' = "try_from" =>
                     (Fits(stream[idx'].kind) /\ sequence' = StateAfter(stream[idx'].kind))
       /\ (pc' = "done" /\ IsOk(result')) =>
              IsWordFrom(OdsKindsRead(Len(stream')), 1, FALSE)]_vars

\* C4 witness: a run with a split object followed by a Single one is read
C4_Witness ==
    /\ pc = "done"
    /\ IsOk(result)
    /\ OdsKindsRead(Len(stream)) =
           <<"InitialObjectDefinition", "MiddleObjectDefinition",
             "FinalObjectDefinition", "SingleObjectDefinition">>

\* C5: the ES taken in state Initial or Middle fails the read with
\* IncompleteObjectSequence, and a display set is returned only in state Single
\* or Final
C5_EndInOpenSequence ==
    [][/\ (/\ pc = "try_from"
           /\ idx' = idx + 1
           /\ stream[idx'].kind = "End"
           /\ sequence \in {"Initial", "Middle"}) =>
              (pc' = "done" /\ result'.err = "IncompleteObjectSequence")
       /\ (pc' = "done" /\ IsOk(result')) => sequence' \in {"Single", "Final"}]_vars

\* C5 witness: the ES arrived after an Initial and a Middle ODS and the read failed
C5_Witness ==
    /\ pc = "done"
    /\ stream[Len(stream)].kind = "End"
    /\ sequence = "Middle"
    /\ result.err = "IncompleteObjectSequence"

\* the index of the last Initial ODS read before segment n
PendingInitial(n) ==
    CHOOSE j \in 1..(n - 1) :
        /\ stream[j].kind = "InitialObjectDefinition"
        /\ \A k \in (j + 1)..(n - 1) : stream[k].kind # "InitialObjectDefinition"

\* the data of the ODS segments read from segment j to segment n, in order
RECURSIVE FragmentData(_, _)
FragmentData(j, n) ==
    IF j > n THEN <<>>
    ELSE (IF stream[j].kind \in OdsKinds THEN stream[j].data ELSE <<>>)
             \o FragmentData(j + 1, n)

\* C6: when a Final ODS is accepted, the object stored under the (id, version) of
\* the pending Initial ODS has that segment's width and height and the lines that
\* rle_decompress gives for the data of the Initial, the Middles in arrival order
\* and the Final, and no other object changes
C6_Reassembly ==
    [][(/\ pc = "try_from"
        /\ idx' = idx + 1
        /\ stream[idx'].kind = "FinalObjectDefinition"
        /\ pc' = "try_from") =>
           LET initial == stream[PendingInitial(idx')]
               vid == <<initial.id, initial.version>>
               whole == rle_decompress(FragmentData(PendingInitial(idx'), idx'))
           IN  /\ IsOk(whole)
               /\ DOMAIN objects' = (DOMAIN objects) \cup {vid}
               /\ objects'[vid] = [width |-> initial.width, height |-> initial.height,
                                   lines |-> whole.out]
               /\ \A k \in (DOMAIN objects) \ {vid} : objects'[k] = objects[k]]_vars

\* C6 witness: an object assembled from an Initial, two different Middles and a
\* Final, an opcode lying across two fragments
C6_Witness ==
    /\ pc = "done"
    /\ IsOk(result)
    /\ <<1, 0>> \in DOMAIN result.ds.objects
    /\ result.ds.objects[<<1, 0>>] = [width |-> 4, height |-> 1, lines |-> <<<<1, 2, 2, 3>>>>]

\* C7: a read whose first segment is not a PCS fails with
\* MissingPresentationCompositionSegment, a read that meets a PCS later fails with
\* UnexpectedPresentationCompositionSegment, and a run that is read successfully
\* has exactly one PCS, its first segment
C7_SinglePcs ==
    pc = "done" =>
        /\ stream[1].kind \notin {"PresentationComposition", "ReadError"} =>
               result.err = "MissingPresentationCompositionSegment"
        /\ (\E i \in 2..Len(stream) : stream[i].kind = "PresentationComposition") =>
               result.err = "UnexpectedPresentationCompositionSegment"
        /\ IsOk(result) =>
               {i \in 1..Len(stream) : stream[i].kind = "PresentationComposition"} = {1}

\* C7 witness: a PCS read after the leading PCS and two other segments
C7_Witness ==
    /\ pc = "done"
    /\ Len(stream) = 4
    /\ stream[4].kind = "PresentationComposition"
    /\ result.err = "UnexpectedPresentationCompositionSegment"

\* the segment try_from takes in this step has the timestamps of the leading PCS
SameTimestamps ==
    stream[idx'].pts = stream[1].pts /\ stream[idx'].dts = stream[1].dts

\* C8: a WDS, PDS, ODS or ES whose pts differs from the leading PCS fails the read
\* with InconsistentPts, one with that pts and a different dts fails it with
\* InconsistentDts, and a display set is returned only if all timestamps agree
C8_Timestamps ==
    [][/\ (pc = "try_from" /\ idx' = idx + 1 /\ idx' > 1) =>
              /\ stream[idx'].pts # stream[1].pts =>
                     (pc' = "done" /\ result'.err = "InconsistentPts")
              /\ (stream[idx'].pts = stream[1].pts /\ stream[idx'].dts # stream[1].dts) =>
                     (pc' = "done" /\ result'.err = "InconsistentDts")
       /\ (pc' = "done" /\ IsOk(result')) =>
              \A i \in 1..Len(stream') :
                  stream'[i].pts = stream'[1].pts /\ stream'[i].dts = stream'[1].dts]_vars

\* the windows of a WDS repeat an id held in the map m or an id of their own
RepeatsWindowId(m, wds) ==
    \E n \in DOMAIN wds :
        \/ wds[n].id \in DOMAIN m
        \/ \E k \in 1..(n - 1) : wds[k].id = wds[n].id

\* a map keeps every key it has, with its value
Kept(m, after) == \A k \in DOMAIN m : k \in DOMAIN after /\ after[k] = m[k]

\* C9: no window, palette or object of the maps is ever replaced or removed; a WDS
\* that repeats a window id fails the read with DuplicateWindowId, a PDS whose
\* (id, version) is present fails it with DuplicatePaletteVid, and a Single or
\* Initial ODS whose (id, version) is present fails it with DuplicateObjectVid
\* (for a segment with the timestamps of the PCS, an ODS in a state that admits it)
C9_NoOverwrite ==
    [][/\ Kept(windows, windows')
       /\ Kept(palettes, palettes')
       /\ Kept(objects, objects')
       /\ (pc = "try_from" /\ idx' = idx + 1 /\ idx' > 1 /\ SameTimestamps) =>
              /\ (/\ stream[idx'].kind = "WindowDefinition"
                  /\ RepeatsWindowId(windows, stream[idx'].windows)) =>
                     (pc' = "done" /\ result'.err = "DuplicateWindowId")
              /\ (/\ stream[idx'].kind = "PaletteDefinition"
                  /\ <<stream[idx'].id, stream[idx'].version>> \in DOMAIN palettes) =>
                     (pc' = "done" /\ result'.err = "DuplicatePaletteVid")
              /\ (/\ stream[idx'].kind \in
                         {"SingleObjectDefinition", "InitialObjectDefinition"}
                  /\ sequence \in {"Single", "Final"}
                  /\ <<stream[idx'].id, stream[idx'].version>> \in DOMAIN objects) =>
                     (pc' = "done" /\ result'.err = "DuplicateObjectVid")]_vars

\* C9 witness: a later WDS brought a new window and then one with a known id
C9_Witness ==
    /\ pc = "done"
    /\ result.err = "DuplicateWindowId"
    /\ Len(stream[idx].windows) = 2
    /\ DOMAIN windows = {0, 1}
    /\ windows[0].x = 0

\* C10: a display set returned with palette_update_id = Some(p) holds a palette
\* whose id is p, and when try_from has taken every segment and none of them is a
\* PDS with id p the read fails with PaletteUpdateReferencesUnknownPaletteId
C10_PaletteUpdate ==
    [][/\ (pc' = "done" /\ IsOk(result') /\ result'.ds.palette_update_id.some) =>
              \E vid \in DOMAIN result'.ds.palettes :
                  vid[1] = result'.ds.palette_update_id.v
       /\ (/\ pc = "try_from"
           /\ idx = Len(segments)
           /\ stream[1].palette_update_id.some
           /\ ~\E i \in 1..Len(stream) :
                   /\ stream[i].kind = "PaletteDefinition"
                   /\ stream[i].id = stream[1].palette_update_id.v) =>
              (pc' = "done" /\ result'.err = "PaletteUpdateReferencesUnknownPaletteId")]_vars

\* C10 witness: palette_update_id = Some(1), a palette (0, 1) but none with id 1
C10_Witness ==
    /\ pc = "done"
    /\ result.err = "PaletteUpdateReferencesUnknownPaletteId"
    /\ stream[1].palette_update_id = Some(1)
    /\ <<0, 1>> \in DOMAIN palettes

(***************************************************************************)
(* write_display_set as a state machine: to_segments one push at a time,   *)
(* an iteration of the loop over the objects being one step, then the loop *)
(* over write_segment.                                                     *)
(***************************************************************************)
SmallObject(pixel) ==
    [width |-> 4, height |-> 1, lines |-> <<<<pixel, pixel, pixel, 0>>>>]

\* an object whose lines are runs of one or two pixels, so that each line
\* compresses to width + 2 bytes
Striped(width, height) ==
    [width |-> width, height |-> height,
     lines |-> [n \in 1..height |-> [i \in 1..width |-> 1 + ((i \div 2) % 2)]]]

\* an object with a run of 16,384 pixels
TooLong == [width |-> 16384, height |-> 1, lines |-> <<[i \in 1..16384 |-> 0]>>]

SampleObjects ==
    {[vid \in {<<513, 0>>} |-> SmallObject(1)],
     [vid \in {<<2, 1>>, <<2, 0>>, <<1, 5>>} |-> SmallObject(vid[1] + vid[2])]}

\* objects whose compressed data has 65,508, 65,509 and 150,000 bytes, and one
\* that rle_compress rejects
LargeObjects ==
    {[vid \in {<<1, 0>>} |-> Striped(634, 103)],
     [vid \in {<<1, 0>>, <<1, 1>>, <<2, 0>>} |->
         IF vid = <<1, 1>> THEN Striped(599, 109) ELSE SmallObject(vid[1])],
     [vid \in {<<7, 3>>, <<8, 0>>} |->
         IF vid = <<7, 3>> THEN Striped(373, 400) ELSE SmallObject(5)],
     [vid \in {<<1, 0>>, <<2, 0>>} |-> IF vid = <<2, 0>> THEN TooLong ELSE SmallObject(1)]}

WriteDisplaySets ==
    SampleDisplaySets
    \cup {[ds EXCEPT !.objects = o] :
              ds \in {d \in SampleDisplaySets :
                          /\ DOMAIN d.palettes = {<<0, 1>>, <<1, 0>>}
                          /\ DOMAIN d.composition.objects = {<<513, 1>>}
                          /\ ~d.composition.objects[<<513, 1>>].crop.some},
              o \in SampleObjects}
    \cup {[ds EXCEPT !.objects = o] :
              ds \in {d \in SampleDisplaySets :
                          /\ DOMAIN d.windows = {0, 1}
                          /\ DOMAIN d.palettes = {<<0, 1>>, <<1, 0>>}
                          /\ DOMAIN d.composition.objects = {<<513, 1>>}
                          /\ ~d.composition.objects[<<513, 1>>].crop.some},
              o \in LargeObjects}

InitWrite ==
    /\ pc = "to_segments"
    /\ display_set \in WriteDisplaySets
    /\ input_segment = NoSegment
    /\ sink = Idle
    /\ cursor = 1
    /\ object_iter = <<>>
    /\ cycled = Idle
    /\ ReadIdle
    /\ RleIdle
    /\ ModIdle

\* to_segments up to the loop over the objects
PushHead ==
    /\ pc = "to_segments"
    /\ segments' = head_segments(display_set)
    /\ object_iter' = AscendingPairs(DOMAIN display_set.objects)
    /\ pc' = "for_object"
    /\ UNCHANGED <<focus, stream, tryVars, result, rleVars, modVars, input_segment, display_set, sink,
                   cursor, cycled>>

\* `let data = rle_compress(&object.lines)?` for the object the loop is at
Compressed == rle_compress(display_set.objects[Head(object_iter)].lines)

\* one iteration of `for (vid, object) in &self.objects`: the `?` returns the
\* error of rle_compress, and otherwise the segments of the object are pushed
PushObject ==
    /\ pc = "for_object"
    /\ object_iter # <<>>
    /\ LET compressed == Compressed IN
       IF IsOk(compressed)
       THEN /\ segments' = segments \o object_segments(display_set, Head(object_iter),
                                                       compressed.out)
            /\ object_iter' = Tail(object_iter)
            /\ pc' = "for_object"
            /\ UNCHANGED sink
       ELSE /\ sink' = Err(compressed.err)
            /\ pc' = "write_failed"
            /\ UNCHANGED <<segments, object_iter>>
    /\ UNCHANGED <<focus, stream, idx, pcs, es, sequence, initial_object, middle_objects,
                   windows, palettes, objects, result, rleVars, modVars, input_segment, display_set,
                   cursor, cycled>>

\* the ES after the loop; to_segments returns and the write loop starts on an
\* empty buffer
PushEnd ==
    /\ pc = "for_object"
    /\ object_iter = <<>>
    /\ segments' = Append(segments, EndSegment(display_set.pts, display_set.dts))
    /\ sink' = Ok(<<>>)
    /\ pc' = "write_loop"
    /\ UNCHANGED <<focus, stream, tryVars, result, rleVars, modVars, input_segment, display_set, cursor,
                   object_iter, cycled>>

\* one iteration of `for segment in segments.into_iter()`
WriteNextSegment ==
    /\ pc = "write_loop"
    /\ idx < Len(segments)
    /\ LET one == write_segment(segments[idx + 1]) IN
       /\ sink' = IF IsOk(one) THEN Ok(sink.out \o one.out)
                  ELSE [err |-> "SegmentError", out |-> sink.out \o one.out,
                        source |-> one.err]
       /\ pc' = IF IsOk(one) THEN "write_loop" ELSE "write_failed"
    /\ idx' = idx + 1
    /\ UNCHANGED <<focus, stream, segments, pcs, es, sequence, initial_object, middle_objects,
                   windows, palettes, objects, result, rleVars, modVars, input_segment, display_set,
                   cursor, object_iter, cycled>>

WriteReturn ==
    /\ pc = "write_loop"
    /\ idx = Len(segments)
    /\ pc' = "written"
    /\ UNCHANGED <<rleVars, modVars, readVars, codecVars>>

NextWrite ==
    PushHead \/ PushObject \/ PushEnd \/ WriteNextSegment \/ WriteReturn

SpecWrite == InitWrite /\ [][NextWrite]_vars

(***************************************************************************)
(* Properties of write_display_set.  segments is the vector to_segments    *)
(* builds; sink.out holds the bytes that reached the buffer.               *)
(***************************************************************************)
\* kind, pts and dts of the segment headers in the bytes from pos on
RECURSIVE EmittedHeaders(_, _)
EmittedHeaders(bytes, pos) ==
    IF pos > Len(bytes) THEN <<>>
    ELSE <<[kind |-> bytes[pos + 10], pts |-> U32At(bytes, pos + 2),
            dts |-> U32At(bytes, pos + 6)]>>
             \o EmittedHeaders(bytes, pos + 13 + U16At(bytes, pos + 11))

\* the positions in segments of the segments of these kinds
At(kinds) == {i \in 1..Len(segments) : segments[i].kind \in kinds}

Rank(kind) ==
    CASE kind = "PresentationComposition" -> 1
      [] kind = "WindowDefinition" -> 2
      [] kind = "PaletteDefinition" -> 3
      [] kind \in OdsKinds -> 4
      [] kind = "End" -> 5

VidOf(seg) == <<seg.id, seg.version>>

Below(a, b) == a[1] < b[1] \/ (a[1] = b[1] /\ a[2] < b[2])

\* C11: the segments to_segments returns are one PCS, the first; one WDS holding
\* every window, the second, or none when windows is empty; then one PDS for each
\* palette in ascending (id, version); then the ODS segments of each object in
\* ascending (id, version), those of one object next to each other; then one ES,
\* the last; and the bytes written hold the segments in that order
C11_EmissionOrder ==
    pc \in {"write_loop", "written"} =>
        /\ At({"PresentationComposition"}) = {1}
        /\ At({"End"}) = {Len(segments)}
        /\ At({"WindowDefinition"}) = IF DOMAIN display_set.windows = {} THEN {} ELSE {2}
        /\ \A i \in At({"WindowDefinition"}) :
               /\ Len(segments[i].windows) = Cardinality(DOMAIN display_set.windows)
               /\ \A id \in DOMAIN display_set.windows :
                      \E n \in DOMAIN segments[i].windows :
                          segments[i].windows[n] =
                              WindowDefinition(id, display_set.windows[id].x,
                                               display_set.windows[id].y,
                                               display_set.windows[id].width,
                                               display_set.windows[id].height)
        /\ \A i, j \in 1..Len(segments) :
               i < j => Rank(segments[i].kind) <= Rank(segments[j].kind)
        /\ {VidOf(segments[i]) : i \in At({"PaletteDefinition"})} = DOMAIN display_set.palettes
        /\ \A i, j \in At({"PaletteDefinition"}) :
               i < j => Below(VidOf(segments[i]), VidOf(segments[j]))
        /\ {VidOf(segments[i]) : i \in At(OdsKinds)} = DOMAIN display_set.objects
        /\ \A i, j \in At(OdsKinds) :
               i < j => (\/ Below(VidOf(segments[i]), VidOf(segments[j]))
                         \/ /\ VidOf(segments[i]) = VidOf(segments[j])
                            /\ \A k \in i..j : VidOf(segments[k]) = VidOf(segments[i]))
        /\ pc = "written" =>
               [n \in 1..Len(segments) |-> EmittedHeaders(sink.out, 1)[n].kind]
                   = [n \in 1..Len(segments) |-> kind_byte(segments[n])]

\* C11 witness: a display set with two windows, two palettes and the objects
\* (2, 1), (2, 0) and (1, 5) was written, the objects as (1, 5), (2, 0), (2, 1)
C11_Witness ==
    /\ pc = "written"
    /\ IsOk(sink)
    /\ [n \in 1..Len(segments) |-> Rank(segments[n].kind)] = <<1, 2, 3, 3, 4, 4, 4, 5>>
    /\ [n \in 1..3 |-> VidOf(segments[n + 4])] = <<<<1, 5>>, <<2, 0>>, <<2, 1>>>>
    /\ [n \in 1..Len(segments) |-> EmittedHeaders(sink.out, 1)[n].kind] =
           <<22, 23, 20, 20, 21, 21, 21, 128>>

\* C12: every segment to_segments pushes has the pts and the dts of the display
\* set, and so has the header of every segment written
C12_SharedTimestamps ==
    pc \in {"for_object", "write_loop", "written"} =>
        /\ \A i \in 1..Len(segments) :
               segments[i].pts = display_set.pts /\ segments[i].dts = display_set.dts
        /\ pc \in {"write_loop", "written"} =>
               /\ Len(EmittedHeaders(sink.out, 1)) = idx
               /\ \A n \in 1..idx :
                      /\ EmittedHeaders(sink.out, 1)[n].pts = display_set.pts
                      /\ EmittedHeaders(sink.out, 1)[n].dts = display_set.dts

\* C12 witness: to_segments returned a PCS, a WDS, two PDS, an Initial, a Middle
\* and a Final ODS, a Single ODS and the ES, and the write loop is past the PDS
C12_Witness ==
    /\ pc = "write_loop"
    /\ idx = 4
    /\ IsOk(sink)
    /\ [n \in 1..Len(segments) |-> kind_byte(segments[n])] = <<22, 23, 20, 20, 21, 21, 21, 21, 128>>
    /\ {segments[n].kind : n \in 5..8} = OdsKinds
    /\ [n \in 1..4 |-> EmittedHeaders(sink.out, 1)[n].pts] = [n \in 1..4 |-> display_set.pts]

\* an iteration of the loop over the objects that pushed segments
ObjectPushed == pc = "for_object" /\ object_iter # <<>> /\ pc' = "for_object"

\* the segments the step PushObject appends
Pushed == SubSeq(segments', Len(segments) + 1, Len(segments'))

\* the data of the segments segs from the n-th on, end to end
RECURSIVE DataFrom(_, _)
DataFrom(segs, n) == IF n > Len(segs) THEN <<>> ELSE segs[n].data \o DataFrom(segs, n + 1)

\* pushed is the split of bytes, the compressed data of the object vid, that C13
\* describes
SplitOf(pushed, vid, bytes) ==
    /\ Len(pushed) >= 1
    /\ \A k \in 1..Len(pushed) : VidOf(pushed[k]) = vid
    /\ Len(bytes) <= 65508 =>
           /\ Len(pushed) = 1
           /\ pushed[1].kind = "SingleObjectDefinition"
           /\ pushed[1].data = bytes
    /\ Len(bytes) > 65508 =>
           /\ Len(pushed) >= 2
           /\ pushed[1].kind = "InitialObjectDefinition"
           /\ pushed[1].data = SubSeq(bytes, 1, 65508)
           /\ \A k \in 2..(Len(pushed) - 1) :
                  /\ pushed[k].kind = "MiddleObjectDefinition"
                  /\ Len(pushed[k].data) <= 65515
           /\ pushed[Len(pushed)].kind = "FinalObjectDefinition"
    /\ DataFrom(pushed, 1) = bytes

\* C13: the segments pushed for an object whose compressed data has n bytes are
\* one Single ODS with all of it when n <= 65,508, and otherwise an Initial ODS
\* with the first 65,508 bytes, Middle ODS of at most 65,515 bytes and a Final
\* ODS; each has the (id, version) of the object, and their data end to end is
\* the compressed data
C13_Fragments ==
    [][ObjectPushed => SplitOf(Pushed, Head(object_iter), Compressed.out)]_vars

\* C13 witness: the object (1, 1), whose compressed data has 65,509 bytes, went
\* to an Initial ODS with 65,508 bytes and a Final ODS with one
C13_Witness ==
    /\ pc = "for_object"
    /\ object_iter = <<<<2, 0>>>>
    /\ segments[Len(segments) - 1].kind = "InitialObjectDefinition"
    /\ VidOf(segments[Len(segments) - 1]) = <<1, 1>>
    /\ Len(segments[Len(segments) - 1].data) = 65508
    /\ segments[Len(segments)].kind = "FinalObjectDefinition"
    /\ Len(segments[Len(segments)].data) = 1

\* kinds, data lengths and (id, version) of the segments pushed
Shape(pushed) ==
    [k \in 1..Len(pushed) |-> <<pushed[k].kind, Len(pushed[k].data), VidOf(pushed[k])>>]

\* C14 as stated: compressed data of 150,000 bytes goes to one Initial, two
\* Middle and one Final ODS with the (id, version) of the object
C14_TwoMiddles ==
    [][(ObjectPushed /\ Len(Compressed.out) = 150000) =>
           /\ [k \in 1..Len(Pushed) |-> Shape(Pushed)[k][1]] =
                  <<"InitialObjectDefinition", "MiddleObjectDefinition",
                    "MiddleObjectDefinition", "FinalObjectDefinition">>
           /\ \A k \in 1..Len(Pushed) : Shape(Pushed)[k][3] = Head(object_iter)]_vars

\* C14 amended: compressed data of 150,000 bytes goes to one Initial ODS with
\* 65,508 bytes, one Middle ODS with 65,515 and one Final ODS with the other
\* 18,977, each with the (id, version) of the object
C14_OneMiddle ==
    [][(ObjectPushed /\ Len(Compressed.out) = 150000) =>
           Shape(Pushed) = <<<<"InitialObjectDefinition", 65508, Head(object_iter)>>,
                             <<"MiddleObjectDefinition", 65515, Head(object_iter)>>,
                             <<"FinalObjectDefinition", 18977, Head(object_iter)>>>>]_vars

\* C14 witness: the object (7, 3), whose compressed data has 150,000 bytes, was
\* pushed
C14_Witness ==
    /\ pc = "for_object"
    /\ object_iter = <<<<8, 0>>>>
    /\ VidOf(segments[Len(segments)]) = <<7, 3>>
    /\ Len(DataFrom(segments, 5)) = 150000

(***************************************************************************)
(* read_segment on a source that holds one segment as a stream may hold    *)
(* it: a PCS whose composition objects carry any flags byte and whose      *)
(* payload may end inside a crop rectangle, and ODS of every sequence flag *)
(* in the layouts of segmentwrite.rs.                                      *)
(***************************************************************************)
RawSegment(kind, payload) ==
    U16(20551) \o U32(90000) \o U32(89000) \o U8(kind) \o U16(Len(payload)) \o payload

\* a composition object record with this flags byte and the first n bytes of a
\* crop rectangle
RawCompObj(flags, n) ==
    U16(513) \o U8(1) \o U8(flags) \o U16(300) \o U16(400)
        \o SubSeq(U16(10) \o U16(20) \o U16(640) \o U16(480), 1, n)

RawPcs(records) ==
    RawSegment(22, U16(1920) \o U16(1080) \o U8(16) \o U16(258) \o U8(128) \o U8(0) \o U8(0)
                       \o U8(Len(records)) \o Flatten(records, 1))

\* an ODS with a length field, a width and a height: Single (0xC0), Initial (0x80)
RawOds(flag, length, bytes) ==
    RawSegment(21, U16(513) \o U8(0) \o U8(flag) \o U24(length) \o U16(4) \o U16(1) \o bytes)

\* an ODS without them: Middle (0x00), Final (0x40)
RawOdsRest(flag, bytes) == RawSegment(21, U16(513) \o U8(0) \o U8(flag) \o bytes)

SampleFlags == {0, 64, 128, 192, 1, 32, 65, 129, 160, 255}

SampleBuffers ==
    {RawPcs(<<RawCompObj(f, n)>>) : f \in SampleFlags, n \in {0, 4, 7, 8}}
    \cup {RawPcs(<<RawCompObj(f, IF f >= 128 THEN 8 ELSE 0), RawCompObj(0, 0)>>) :
              f \in SampleFlags}
    \cup {RawOds(192, length, <<1, 0, 130, 2, 3, 0, 0>>) : length \in {11, 10, 7, 0}}
    \cup {RawOds(128, length, <<1, 0>>) : length \in {11, 6}}
    \cup {RawOdsRest(0, <<130, 2, 3>>), RawOdsRest(64, <<0, 0>>),
          RawOdsRest(64, <<130, 2, 3, 0, 0>>)}

\* a PCS whose composition_object_count byte is count, whatever records follow
RawPcsDeclaring(count, records) ==
    RawSegment(22, U16(1920) \o U16(1080) \o U8(16) \o U16(258) \o U8(128) \o U8(0) \o U8(0)
                       \o U8(count) \o Flatten(records, 1))

\* a WDS whose count byte is count, followed by the first n bytes of two window
\* records
RawWds(count, n) ==
    RawSegment(23, U8(count) \o SubSeq(generate_window(WindowDefinition(0, 1, 2, 1920, 1080))
                                          \o generate_window(WindowDefinition(1, 3, 4, 500, 600)),
                                      1, n))

\* segments that are whole by their size field and whose payload is too short for
\* what it declares, some whole ones, and sources that end inside a segment
ShortBuffers ==
    {RawPcsDeclaring(count, records) :
         count \in 0..3,
         records \in {<<>>, <<RawCompObj(0, 0)>>, <<RawCompObj(0, 0), RawCompObj(0, 0)>>,
                      <<RawCompObj(0, 0), SubSeq(RawCompObj(0, 0), 1, 5)>>}}
    \cup {RawSegment(22, SubSeq(U16(1920) \o U16(1080) \o U8(16) \o U16(258) \o U8(128)
                                    \o U8(0) \o U8(0) \o U8(0), 1, n)) : n \in {0, 7, 10}}
    \cup {RawWds(count, n) : count \in 0..2, n \in {0, 5, 9, 18}}
    \cup {RawSegment(23, <<>>)}
    \cup {SubSeq(RawWds(1, 9), 1, n) : n \in {0, 1, 5, 12, 13, 20}}

InitParse ==
    /\ pc = "seg_written"
    /\ sink \in {Ok(bytes) : bytes \in SampleBuffers \cup ShortBuffers}
    /\ input_segment = NoSegment
    /\ display_set = NoDisplaySet
    /\ cursor = 1
    /\ object_iter = <<>>
    /\ cycled = Idle
    /\ ReadIdle
    /\ RleIdle
    /\ ModIdle

\* pgsdump: the match on the result of read_segment in the loop of main.  An Ok
\* is printed and the loop goes on; an IoError of kind UnexpectedEof breaks the
\* loop; any other error panics
DumpMatch ==
    /\ pc = "seg_done"
    /\ pc' = IF IsOk(cycled) THEN "dump_next"
             ELSE IF cycled.err = "UnexpectedEof" THEN "dump_break"
             ELSE "dump_panic"
    /\ UNCHANGED <<rleVars, modVars, readVars, codecVars>>

NextParse == ReadSegment \/ DumpMatch

SpecParse == InitParse /\ [][NextParse]_vars

\* the source holds a PCS with one composition object record
OneCompObj == Len(sink.out) >= 32 /\ sink.out[11] = 22 /\ sink.out[24] = 1

\* the flags byte of the first composition object record and its bit 0x80
FlagsByte == sink.out[28]

CroppedBit == (FlagsByte \div 128) % 2 = 1

\* the payload bytes after the y field of the first composition object record
AfterY == Len(sink.out) - 32

\* C15: a PCS whose composition object record has the cropped bit 0x80 set and
\* fewer than 8 payload bytes after its y field is read successfully, the
\* composition object having crop = None
C15_CropQuirk ==
    (pc = "seg_done" /\ OneCompObj /\ CroppedBit /\ AfterY < 8) =>
        /\ IsOk(cycled)
        /\ Len(cycled.out.composition_objects) = 1
        /\ cycled.out.composition_objects[1].crop = None

\* C16: whatever the flags byte of a composition object record, the PCS is read
\* successfully, with a crop exactly when bit 0x80 is set (the record then
\* holding the 8 crop bytes); and writing a PCS that was read gives each record
\* the flags byte 0x80 when it has a crop and 0x00 when it has none (a
\* CompositionObject of segment.rs has no forced field: bit 0x40 is never set)
C16_FlagBits ==
    (pc = "seg_done" /\ OneCompObj /\ AfterY = (IF CroppedBit THEN 8 ELSE 0)) =>
        /\ IsOk(cycled)
        /\ Len(cycled.out.composition_objects) = 1
        /\ cycled.out.composition_objects[1].crop.some = CroppedBit
        /\ write_segment(cycled.out).out[28] = (IF CroppedBit THEN 128 ELSE 0)

\* C20: a Single ODS is read successfully when its length field is the payload
\* size minus 7 and fails with InvalidObjectDataLength otherwise; an Initial ODS
\* whose length field is the total over all fragments, a Middle ODS and a Final
\* ODS are read successfully
C20_OdsLength ==
    (pc = "seg_done" /\ Len(sink.out) >= 13 /\ sink.out[11] = 21) =>
        /\ sink.out[17] = 192 =>
               IF U24At(sink.out, 18) = Len(sink.out) - 13 - 7
               THEN IsOk(cycled)
               ELSE cycled.err = "InvalidObjectDataLength"
        /\ sink.out[17] \in {128, 0, 64} => IsOk(cycled)

\* C19: every object of a display set read_display_set returns has `height` lines
\* of `width` bytes each, so a run with an object whose decompressed data has
\* another shape is not read successfully
C19_ObjectShape ==
    (pc = "done" /\ IsOk(result)) =>
        \A vid \in DOMAIN result.ds.objects :
            /\ Len(result.ds.objects[vid].lines) = result.ds.objects[vid].height
            /\ \A n \in DOMAIN result.ds.objects[vid].lines :
                   Len(result.ds.objects[vid].lines[n]) = result.ds.objects[vid].width

(***************************************************************************)
(* The ends of the input: read_display_set on a source that stops early,   *)
(* at a segment boundary or inside a segment, and DisplaySet::try_from on  *)
(* a slice its caller collected, the empty one and those without an ES     *)
(* included.                                                               *)
(***************************************************************************)
SourceRun ==
    <<PresentationCompositionSegment(1, 2, 1920, 1080, 16, 7, "EpochStart", None, CropFree),
      SampleWds(1, 2), SamplePds(1, 2, 0, 0), EndSegment(1, 2)>>

\* the bytes of the first k segments of the run
Written(k) == write_segments(SubSeq(SourceRun, 1, k), 1, <<>>).out

\* the run cut after k segments and 0, 1 or 13 bytes of the next
SampleSources ==
    {SubSeq(Written(Len(SourceRun)), 1, n) :
         n \in {Len(Written(k)) + j : k \in 0..Len(SourceRun), j \in {0, 1, 13}}
                   \cap 0..Len(Written(Len(SourceRun)))}

\* the slices of at most three segments
SampleSlices ==
    LET some == {SamplePcs(None), SampleWds(1, 2), SampleSods(1, 2, 0, 0, 1),
                 EndSegment(1, 2)}
    IN  {<<>>} \cup {<<a>> : a \in some} \cup {<<a, b>> : a \in some, b \in some}
            \cup {<<a, b, c>> : a \in some, b \in some, c \in some}

InitSource ==
    /\ pc = "read_first"
    /\ focus = "sink"
    /\ sink \in {Ok(bytes) : bytes \in SampleSources}
    /\ stream = <<>>
    /\ segments = <<>>

InitSlice ==
    /\ pc = "try_from"
    /\ focus = "slice"
    /\ sink = Idle
    /\ segments \in SampleSlices
    /\ stream = segments

InitEdge ==
    /\ InitSource \/ InitSlice
    /\ idx = 0
    /\ pcs = 0
    /\ es = 0
    /\ sequence = "Single"
    /\ initial_object = 0
    /\ middle_objects = <<>>
    /\ windows = EmptyMap
    /\ palettes = EmptyMap
    /\ objects = EmptyMap
    /\ result = Pending
    /\ input_segment = NoSegment
    /\ display_set = NoDisplaySet
    /\ cursor = 1
    /\ object_iter = <<>>
    /\ cycled = Idle
    /\ RleIdle
    /\ ModIdle

SpecEdge == InitEdge /\ [][Next]_vars

\* C17: no display set is returned for a run without an ES: read_display_set on a
\* source that ends after the PCS and before an ES fails with MissingEndSegment,
\* and try_from on a slice that does not end with an ES does not return Ok
C17_MissingEnd ==
    pc = "done" =>
        /\ IsOk(result) => \E i \in DOMAIN segments : segments[i].kind = "End"
        /\ (/\ focus = "sink"
            /\ stream[1].kind = "PresentationComposition"
            /\ stream[Len(stream)] = ReadError("UnexpectedEof")) =>
               result.err = "MissingEndSegment"
        /\ (/\ focus = "slice"
            /\ (segments = <<>> \/ segments[Len(segments)].kind # "End")) =>
               ~IsOk(result)

\* C18: read_display_set on a source without bytes returns the segment error
\* UnexpectedEof, and try_from on the empty slice returns the error NoSegments
C18_EmptyInput ==
    pc = "done" =>
        /\ (focus = "sink" /\ sink.out = <<>>) =>
               (result.err = "SegmentError" /\ result.source = "UnexpectedEof")
        /\ (focus = "slice" /\ segments = <<>>) => result.err = "NoSegments"

(***************************************************************************)
(* Further properties of read_display_set and DisplaySet::try_from.        *)
(***************************************************************************)
\* try_from takes in this step a Middle or Final ODS while an Initial ODS is
\* pending
FragmentTaken ==
    /\ pc = "try_from"
    /\ idx' = idx + 1
    /\ stream[idx'].kind \in {"MiddleObjectDefinition", "FinalObjectDefinition"}
    /\ sequence \in {"Initial", "Middle"}

\* C21: a Middle or Final ODS with the timestamps of the PCS whose id differs from
\* the pending Initial ODS fails the read with InconsistentObjectId, one with that
\* id and another version fails it with InconsistentObjectVersion, and when a Final
\* ODS is accepted every fragment since the pending Initial ODS has its id and
\* version
C21_FragmentIds ==
    [][FragmentTaken =>
           LET initial == stream[PendingInitial(idx')] IN
           /\ (SameTimestamps /\ stream[idx'].id # initial.id) =>
                  (pc' = "done" /\ result'.err = "InconsistentObjectId")
           /\ (/\ SameTimestamps
               /\ stream[idx'].id = initial.id
               /\ stream[idx'].version # initial.version) =>
                  (pc' = "done" /\ result'.err = "InconsistentObjectVersion")
           /\ pc' = "try_from" =>
                  \A k \in PendingInitial(idx')..idx' :
                      stream[k].kind \in OdsKinds => VidOf(stream[k]) = VidOf(initial)]_vars

\* C21 witness: after the Initial and a Middle ODS of object (0, 0) a Final ODS of
\* object (0, 1) arrived and the read failed
C21_Witness ==
    /\ pc = "done"
    /\ result.err = "InconsistentObjectVersion"
    /\ sequence = "Middle"
    /\ stream[idx].kind = "FinalObjectDefinition"
    /\ VidOf(stream[idx]) = <<0, 1>>
    /\ VidOf(stream[initial_object]) = <<0, 0>>

\* C22: a PCS that read_segment returns holds as many composition objects as
\* its composition_object_count byte declares, so a payload with fewer whole
\* records than declared is not read successfully
C22_DeclaredCount ==
    (pc = "seg_done" /\ Len(sink.out) >= 13 /\ sink.out[11] = 22 /\ IsOk(cycled)) =>
        Len(cycled.out.composition_objects) = sink.out[24]

\* the source ends before the 13 header bytes or before the payload the size
\* field announces
SourceExhausted == Len(sink.out) < 13 \/ Len(sink.out) < 13 + U16At(sink.out, 12)

\* C26: the read loop of pgsdump stops without a panic only when the source is
\* exhausted; a segment that is whole by its size field and too short for the
\* fields it declares ends the run with a panic
C26_CleanStop ==
    /\ pc = "dump_break" => SourceExhausted
    /\ (pc \in {"dump_next", "dump_break", "dump_panic"} /\ ~SourceExhausted /\ ~IsOk(cycled)) =>
           pc = "dump_panic"

(***************************************************************************)
(* write_segment at the limits of the format: 255 composition objects and  *)
(* windows, a payload of 65,535 bytes, an ODS length field of 24 bits.     *)
(***************************************************************************)
LimitSegments ==
    {PresentationCompositionSegment(
         90000, 89000, 1920, 1080, 16, 258, state, pu,
         [k \in 1..n |-> CompositionObject(k, 0, 10, 20, None)]) :
         state \in {"Normal", "AcquisitionPoint", "EpochStart"},
         pu \in {None, Some(7)},
         n \in {0, 1, 254, 255, 256, 257}}
    \cup {WindowDefinitionSegment(pts, 89000,
                                  [k \in 1..n |-> WindowDefinition(k % 256, 1, 2, 30, 40)]) :
              pts \in {89000, 90000}, n \in {0, 1, 254, 255, 256, 257}}
    \cup {PaletteDefinitionSegment(90000, 89000, 3, 0,
                                   [k \in 1..n |-> PaletteEntry(k % 256, 16, 128, 128, 255)]) :
              n \in {13105, 13106, 13107}}
    \cup {InitialObjectDefinitionSegment(90000, 89000, 513, 0, length, 4, 1, <<1, 0>>) :
              length \in {16777215, 16777216}}
    \cup {MiddleObjectDefinitionSegment(90000, 89000, 513, 0, <<130, 2, 3>>),
          FinalObjectDefinitionSegment(90000, 89000, 513, 0, <<0, 0>>),
          EndSegment(90000, 89000)}

InitLimit ==
    /\ pc = "seg_start"
    /\ input_segment \in LimitSegments
    /\ display_set = NoDisplaySet
    /\ sink = Idle
    /\ cursor = 1
    /\ object_iter = <<>>
    /\ cycled = Idle
    /\ ReadIdle
    /\ RleIdle
    /\ ModIdle

NextLimit == WriteSegment

SpecLimit == InitLimit /\ [][NextLimit]_vars

\* C23: a write_segment call that fails with TooManyCompositionObjects,
\* TooManyWindowDefinitions or ObjectDataTooLarge has written no byte
C23_FailedWrite ==
    (/\ pc = "seg_written"
     /\ sink.err \in {"TooManyCompositionObjects", "TooManyWindowDefinitions",
                      "ObjectDataTooLarge"}) =>
        sink.out = <<>>

\* C28: the size field of a segment write_segment wrote with Ok is the number
\* of payload bytes after it
C28_SizeField ==
    (pc = "seg_written" /\ IsOk(sink)) => U16At(sink.out, 12) = Len(sink.out) - 13

(***************************************************************************)
(* rle_decompress on arbitrary bytes: sequences of opcodes, whole or cut   *)
(* short, runs of encoded length zero among them.                          *)
(***************************************************************************)
MaxOpcodes == 3

\* a literal, the end of a line, a short and a long run of zeros, a short and
\* a long run of a colour; the runs of 0x40 0x00, 0x80 and 0xC0 0x00 have an
\* encoded length of zero
RleOpcodes ==
    {<<1>>, <<0, 0>>, <<0, 3>>, <<0, 64, 0>>, <<0, 64, 70>>, <<0, 128, 2>>,
     <<0, 131, 2>>, <<0, 192, 0, 2>>, <<0, 192, 70, 2>>}

RECURSIVE OpcodeSeqs(_)
OpcodeSeqs(n) ==
    IF n = 0 THEN {<<>>}
    ELSE LET shorter == OpcodeSeqs(n - 1)
         IN  shorter \cup {s \o op : s \in shorter, op \in RleOpcodes}

\* every opcode sequence and every prefix of one
RawRleInputs ==
    UNION {{SubSeq(s, 1, n) : n \in 0..Len(s)} : s \in OpcodeSeqs(MaxOpcodes)}

InitRaw ==
    /\ pc = "rle_compressed"
    /\ lines = <<>>
    /\ data \in {Ok(bytes) : bytes \in RawRleInputs}
    /\ decoded = Idle
    /\ ReadIdle
    /\ CodecIdle
    /\ ModIdle

NextRaw == RleDecompress

SpecRaw == InitRaw /\ [][NextRaw]_vars

\* the number of bytes of the opcode that starts at input[i]
OpcodeSize(input, i) ==
    IF input[i] # 0 THEN 1
    ELSE IF i + 1 > Len(input) THEN 2
    ELSE IF input[i + 1] < 64 THEN 2
    ELSE IF input[i + 1] < 192 THEN 3
    ELSE 4

\* what the input ends with: "none" (no opcode), "partial" (inside an
\* opcode), "eol" (the terminator) or "run" (a literal or a run)
RECURSIVE LastOpcode(_, _, _)
LastOpcode(input, i, last) ==
    IF i > Len(input) THEN last
    ELSE IF i + OpcodeSize(input, i) - 1 > Len(input) THEN "partial"
    ELSE LastOpcode(input, i + OpcodeSize(input, i),
                    IF input[i] = 0 /\ input[i + 1] = 0 THEN "eol" ELSE "run")

RECURSIVE Terminators(_, _)
Terminators(input, i) ==
    IF i > Len(input) \/ i + OpcodeSize(input, i) - 1 > Len(input) THEN 0
    ELSE (IF input[i] = 0 /\ input[i + 1] = 0 THEN 1 ELSE 0)
             + Terminators(input, i + OpcodeSize(input, i))

\* C24: rle_decompress returns Ok only for an input that is empty or ends with
\* the terminator; an input that ends inside an opcode fails with
\* IncompleteRleSequence, one that ends with a literal or a run of any length
\* fails with IncompleteRleLine, and an Ok result has one line per terminator
C24_TerminatedInput ==
    pc = "rle_done" =>
        LET last == LastOpcode(data.out, 1, "none") IN
        /\ IsOk(decoded) => last \in {"none", "eol"}
        /\ last = "partial" => decoded.err = "IncompleteRleSequence"
        /\ last = "run" => decoded.err = "IncompleteRleLine"
        /\ IsOk(decoded) => Len(decoded.out) = Terminators(data.out, 1)

(***************************************************************************)
(* read_display_set against validation in stream order.                    *)
(***************************************************************************)
\* the locals of try_from after the first k segments of the slice `value`
RECURSIVE LocalsAfter(_, _)
LocalsAfter(value, k) ==
    IF k = 0 THEN try_from_locals(value)
    ELSE LET before == LocalsAfter(value, k - 1) IN
         IF before.err # "None" THEN before ELSE try_from_segment(before, k)

\* the error segment k of the stream earns when segments are validated as
\* they arrive, the timestamps first: "None" if it earns none
OffenceOf(k) ==
    IF stream[k].pts # stream[1].pts THEN "InconsistentPts"
    ELSE IF stream[k].dts # stream[1].dts THEN "InconsistentDts"
    ELSE LocalsAfter(SubSeq(stream, 1, k), k).err

Offends(k) ==
    /\ stream[k].kind \in OdsKinds \cup {"WindowDefinition", "PaletteDefinition"}
    /\ OffenceOf(k) # "None"

\* C25: read_display_set returns the error of the earliest offending WDS, PDS
\* or ODS of the stream, whatever follows that segment, and the timestamps of
\* an ODS are checked before its place in the sequence of fragments
C25_EarliestError ==
    (pc = "done" /\ stream[1].kind = "PresentationComposition") =>
        \A k \in 2..Len(stream) :
            (Offends(k) /\ \A j \in 2..(k - 1) : ~Offends(j)) =>
                result.err = OffenceOf(k)

(***************************************************************************)
(* pgsmod: new_item_offset.  The arguments are u16; an operation whose     *)
(* result leaves 0..65535 panics in a build with overflow checks (the dev  *)
(* profile) and wraps in one without (the release profile).                *)
(***************************************************************************)
Wrap16(n) == n % 65536

Overflows(n) == n < 0 \/ n > 65535

ArithmeticOverflow == Err("panic: arithmetic overflow")

new_item_offset(screen_size, screen_offset, item_size, item_offset, margin, checks) ==
    LET twice == 2 * margin
        room == screen_size - Wrap16(twice)
        edge == screen_offset + margin
        shifted == item_offset - screen_offset
        far == Wrap16(shifted) + item_size
        limit == screen_size - margin
        left == screen_size - item_size
        pulled == Wrap16(left) - margin
    IN  IF checks /\ (Overflows(twice) \/ Overflows(room)) THEN ArithmeticOverflow
        ELSE IF item_size > Wrap16(room)
        THEN Err("panic: Object does not fit within new screen dimensions.")
        ELSE IF checks /\ Overflows(edge) THEN ArithmeticOverflow
        ELSE IF item_offset < Wrap16(edge) THEN Ok(margin)
        ELSE IF checks /\ (Overflows(shifted) \/ Overflows(far) \/ Overflows(limit))
        THEN ArithmeticOverflow
        ELSE IF Wrap16(far) > Wrap16(limit)
        THEN IF checks /\ (Overflows(left) \/ Overflows(pulled)) THEN ArithmeticOverflow
             ELSE Ok(Wrap16(pulled))
        ELSE Ok(Wrap16(shifted))

\* screen sizes and offsets, item sizes and offsets and margins: those of
\* tests.rs and values near the ends of u16
ScreenSizes == {800, 1920, 65535}

ScreenOffsets == {0, 140, 65530}

ItemSizes == {0, 88, 720, 1000}

ItemOffsets == {0, 95, 563, 852, 65000}

Margins == {0, 40, 30000}

InitOffset ==
    /\ pc = "offset_start"
    /\ call \in [made : {TRUE}, screen_size : ScreenSizes, screen_offset : ScreenOffsets,
                 item_size : ItemSizes, item_offset : ItemOffsets, margin : Margins,
                 overflow_checks : BOOLEAN]
    /\ returned = Idle
    /\ ReadIdle
    /\ CodecIdle
    /\ RleIdle

NewItemOffset ==
    /\ pc = "offset_start"
    /\ returned' = new_item_offset(call.screen_size, call.screen_offset, call.item_size,
                                   call.item_offset, call.margin, call.overflow_checks)
    /\ pc' = "offset_done"
    /\ UNCHANGED <<call, rleVars, readVars, codecVars>>

NextOffset == NewItemOffset

SpecOffset == InitOffset /\ [][NextOffset]_vars

\* C27: when item_size <= screen_size - 2 * margin, new_item_offset returns r
\* with margin <= r and r + item_size <= screen_size - margin, r being margin,
\* screen_size - item_size - margin or item_offset - screen_offset as the
\* item lies left of, beyond or inside the margins, and nothing overflows
C27_OffsetInBounds ==
    (pc = "offset_done" /\ call.item_size <= call.screen_size - 2 * call.margin) =>
        /\ IsOk(returned)
        /\ call.margin <= returned.out
        /\ returned.out + call.item_size <= call.screen_size - call.margin
        /\ returned.out =
               IF call.item_offset < call.screen_offset + call.margin THEN call.margin
               ELSE IF call.item_offset - call.screen_offset + call.item_size
                           > call.screen_size - call.margin
               THEN call.screen_size - call.item_size - call.margin
               ELSE call.item_offset - call.screen_offset

(***************************************************************************)
(* The reassembly state of DisplaySet::try_from.                           *)
(***************************************************************************)
\* C29: at every step of try_from the pending Initial fragment is set exactly
\* when the sequence state is Initial or Middle, no Middle fragment is pending
\* in the states Single and Final, and the branches that panic with
\* "initial_object is not set" are never taken
C29_PendingFragments ==
    /\ initial_object # 0 <=> sequence \in {"Initial", "Middle"}
    /\ sequence \in {"Single", "Final"} => middle_objects = <<>>
    /\ result.err # "panic: initial_object is not set"

\* C29 witness: the Final fragment that follows a Middle one has been taken and
\* nothing is pending
C29_Witness ==
    /\ pc = "try_from"
    /\ idx >= 4
    /\ stream[idx].kind = "FinalObjectDefinition"
    /\ stream[idx - 1].kind = "MiddleObjectDefinition"
    /\ sequence = "Final"
    /\ initial_object = 0
    /\ middle_objects = <<>>

\* try_from takes a WDS or a PDS while an object is under reassembly
HeaderTaken ==
    /\ pc = "try_from"
    /\ idx' = idx + 1
    /\ stream[idx'].kind \in {"WindowDefinition", "PaletteDefinition"}
    /\ sequence \in {"Initial", "Middle"}

\* the stream with its WDS and PDS segments moved in front of the ODS segments
HeadersFirst(s) ==
    SelectSeq(s, LAMBDA seg : seg.kind \notin OdsKinds \cup {"End"})
        \o SelectSeq(s, LAMBDA seg : seg.kind \in OdsKinds)
        \o SelectSeq(s, LAMBDA seg : seg.kind = "End")

\* C30: a WDS or PDS taken between the Initial and the Final fragment of an
\* object is accepted (the first of its kind with the timestamps of the PCS
\* always is) and leaves the
\* sequence state, the pending fragments and the objects as they were; the
\* objects of the display set returned are those of the same stream with its
\* WDS and PDS segments moved in front of the ODS segments
C30_HeadersBetweenFragments ==
    [][/\ HeaderTaken =>
              /\ sequence' = sequence
              /\ initial_object' = initial_object
              /\ middle_objects' = middle_objects
              /\ objects' = objects
              /\ (SameTimestamps /\ \A k \in 1..idx : stream[k].kind # stream[idx'].kind) =>
                     (pc' = "try_from" /\ result' = Pending)
       /\ (pc = "try_from" /\ pc' = "done" /\ IsOk(result')) =>
              LET moved == try_from(HeadersFirst(stream)) IN
              IsOk(moved) /\ moved.ds.objects = result'.ds.objects]_vars

\* C30 witness: a display set is returned for PCS, Initial, Middle, WDS, Final,
\* ES and holds the object of the three fragments
C30_Witness ==
    /\ pc = "done"
    /\ IsOk(result)
    /\ [k \in 1..Len(stream) |-> stream[k].kind] =
           <<"PresentationComposition", "InitialObjectDefinition",
             "MiddleObjectDefinition", "WindowDefinition", "FinalObjectDefinition",
             "End">>
    /\ result.ds.objects[Vid(1, 0)].lines = <<<<1, 2, 2>>>>

====
